---- MODULE Spec2Model ----
(***************************************************************************)
(* Model of the sample-size calculator of Hack_oncology                    *)
(* (src/stats/sample_size.py) as a state machine: calculator objects with  *)
(* their alpha / power / dropout_rate attributes, and the calls made on    *)
(* them with the frame each call leaves (exception raised, real-valued     *)
(* local before rounding, result dictionary).                              *)
(*                                                                         *)
(* Python floats are modelled as exact reduced fractions <<n, d>> with     *)
(* d > 0, extended by the three IEEE specials <<1,0>> (inf), <<-1,0>>      *)
(* (-inf) and <<0,0>> (nan).  The inputs are drawn from values on which    *)
(* double arithmetic and exact arithmetic give the same ceilings.          *)
(*                                                                         *)
(* The study-design selector (src/design/logic.py) is modelled beside it:  *)
(* recommend_design and validate_design as operators over PK profiles and  *)
(* StudyDesign records, run under the specification SpecDesign.            *)
(* The regulatory checker (src/reg/checks.py) and the synopsis generator   *)
(* (src/synopsis) run under SpecStudy, the two API handlers of             *)
(* src/api/main.py under SpecApi, and the PKProfile container of           *)
(* src/models/domain.py under SpecProfile.                                 *)
(* scipy.stats.norm.ppf and math.log are tables rounded to three decimals. *)
(***************************************************************************)
EXTENDS Integers, Sequences, FiniteSets, TLC

\* ------------------------------------------------------------------ bounds

\* effect sizes are drawn from MinEffect .. MaxEffect (non-positive included)
MaxEffect == 3
\* longest effect-size list handed to sensitivity_analysis
MaxSweepLen == 2
\* most parameters a PK profile handed to recommend_design holds
MaxProfileLen == 2
\* most endpoints a study handed to the regulatory checker has
MaxEndpoints == 3

\* ------------------------------------------------------- float arithmetic

Abs(a) == IF a < 0 THEN -a ELSE a

Sign(a) == IF a < 0 THEN -1 ELSE IF a > 0 THEN 1 ELSE 0

RECURSIVE GCD(_, _)
GCD(a, b) == IF b = 0 THEN a ELSE GCD(b, a % b)

Inf == <<1, 0>>
NegInf == <<-1, 0>>
NaN == <<0, 0>>

\* the float of the fraction n / d, reduced (d = 0 gives a special)
F(n, d) ==
    IF d = 0 THEN <<Sign(n), 0>>
    ELSE IF n = 0 THEN <<0, 1>>
    ELSE LET g == GCD(Abs(n), Abs(d))
             s == Sign(d)
         IN <<s * (n \div g), s * (d \div g)>>

FromInt(k) == <<k, 1>>

IsFinite(x) == x[2] > 0
IsNaN(x) == x = NaN
IsInf(x) == x[2] = 0 /\ x[1] # 0
IsZero(x) == x[2] > 0 /\ x[1] = 0

\* x * y, cross-cancelled so that no intermediate exceeds the reduced result
FMul(x, y) ==
    IF IsFinite(x) /\ IsFinite(y)
    THEN IF x[1] = 0 \/ y[1] = 0 THEN <<0, 1>>
         ELSE LET g1 == GCD(Abs(x[1]), y[2])
                  g2 == GCD(Abs(y[1]), x[2])
              IN <<(x[1] \div g1) * (y[1] \div g2), (x[2] \div g2) * (y[2] \div g1)>>
    ELSE <<Sign(x[1]) * Sign(y[1]), 0>>

\* x / y for y # 0.0 (Python raises ZeroDivisionError before dividing by 0.0)
FDiv(x, y) ==
    IF IsFinite(y)
    THEN FMul(x, <<Sign(y[1]) * y[2], Abs(y[1])>>)
    ELSE IF IsFinite(x) /\ IsInf(y) THEN <<0, 1>> ELSE NaN

FAdd(x, y) ==
    IF IsFinite(x) /\ IsFinite(y)
    THEN LET g == GCD(x[2], y[2])
         IN F(x[1] * (y[2] \div g) + y[1] * (x[2] \div g), (x[2] \div g) * y[2])
    ELSE IF IsNaN(x) \/ IsNaN(y) THEN NaN
    ELSE IF IsInf(x) /\ IsInf(y) THEN (IF x = y THEN x ELSE NaN)
    ELSE IF IsInf(x) THEN x ELSE y

FNeg(x) == <<-x[1], x[2]>>

FSub(x, y) == FAdd(x, FNeg(y))

\* x ** 2
FSquare(x) == FMul(x, x)

\* x > y on floats (every comparison with nan is false)
FGt(x, y) ==
    IF IsNaN(x) \/ IsNaN(y) THEN FALSE
    ELSE IF IsFinite(x) /\ IsFinite(y)
    THEN LET g == GCD(x[2], y[2]) IN x[1] * (y[2] \div g) > y[1] * (x[2] \div g)
    ELSE IF IsInf(x) /\ IsInf(y) THEN x[1] > y[1]
    ELSE IF IsInf(x) THEN x[1] > 0 ELSE y[1] < 0

FGe(x, y) == FGt(x, y) \/ (~IsNaN(x) /\ x = y)

\* Python's max(a, b): b when b > a, else a
PyMax(a, b) == IF FGt(b, a) THEN b ELSE a

\* floor(x) of a finite float, an integer
FloorOf(x) == x[1] \div x[2]

\* a plausible slip: int() truncation plus one, which overshoots on integers
math_ceil_plus_one(x) == FloorOf(x) + 1

\* math.ceil of a finite float, an integer
math_ceil(x) == -((-x[1]) \div x[2])

\* ------------------------------------------------------ library functions

\* scipy.stats.norm.ppf(p): the standard normal quantile, to three decimals;
\* nan outside [0, 1], -inf at 0, inf at 1
norm_ppf(p) ==
    IF ~IsFinite(p) THEN NaN
    ELSE IF FGt(<<0, 1>>, p) \/ FGt(p, <<1, 1>>) THEN NaN
    ELSE IF p = <<0, 1>> THEN NegInf
    ELSE IF p = <<1, 1>> THEN Inf
    ELSE CASE p = <<39, 40>> -> F(1960, 1000)
           [] p = <<19, 20>> -> F(1645, 1000)
           [] p = <<9, 10>> -> F(1282, 1000)
           [] p = <<4, 5>> -> F(842, 1000)
           [] p = <<1, 4>> -> F(-674, 1000)

\* math.log(x) for the margins in use, to three decimals
math_log(x) ==
    CASE x = <<6, 5>> -> F(182, 1000)
      [] x = <<5, 4>> -> F(223, 1000)

\* ------------------------------------------------------------- the frames

None == "None"

NoResult == [design |-> "none"]

\* the frame of a call that raised: no result is returned
Raise(self, exc) ==
    [self |-> self, raised |-> exc, x |-> NaN, result |-> NoResult, results |-> <<>>]

\* the frame of a call that returned `result`; x is the real value handed to
\* math.ceil on the way
Return(self, x, result) ==
    [self |-> self, raised |-> "none", x |-> x, result |-> result, results |-> <<>>]

\* the exception math.ceil raises on a special, "none" on a finite float
CeilError(x) ==
    IF IsNaN(x) THEN "ValueError" ELSE IF IsInf(x) THEN "OverflowError" ELSE "none"

\* ------------------------------------------------- SampleSizeCalculator

\* a plausible slip: the attributes kept on the class, shared by every instance
SampleSizeCalculator_init_shared(heap, i, alpha, power, dropout_rate) ==
    [j \in DOMAIN heap \cup {i} |->
        [alpha |-> alpha, power |-> power, dropout_rate |-> dropout_rate]]

\* __init__: the heap with instance i holding the three attributes
SampleSizeCalculator_init(heap, i, alpha, power, dropout_rate) ==
    [j \in DOMAIN heap \cup {i} |->
        IF j = i
        THEN [alpha |-> alpha, power |-> power, dropout_rate |-> dropout_rate]
        ELSE heap[j]]

\* a plausible slip: the one-sided quantile used in the two-sided test
TwoSidedFactor_one_sided(self) ==
    LET z_alpha == norm_ppf(FSub(<<1, 1>>, self.alpha))
        z_beta == norm_ppf(self.power)
    IN FSquare(FAdd(z_alpha, z_beta))

\* the two-sided factor (z_alpha + z_beta) ** 2 of lines 66-71 and 130-135
TwoSidedFactor(self) ==
    LET z_alpha == norm_ppf(FSub(<<1, 1>>, FDiv(self.alpha, <<2, 1>>)))
        z_beta == norm_ppf(self.power)
    IN FSquare(FAdd(z_alpha, z_beta))

\* a plausible slip: the dropout inflation multiplies where it should divide
DropoutAdjust_times(self, n) ==
    IF FSub(<<1, 1>>, self.dropout_rate) = <<0, 1>> THEN 0
    ELSE math_ceil(FMul(FromInt(n), FSub(<<1, 1>>, self.dropout_rate)))

\* math.ceil(n / (1 - self.dropout_rate)) for a denominator other than 0.0
DropoutAdjust(self, n) ==
    math_ceil(FDiv(FromInt(n), FSub(<<1, 1>>, self.dropout_rate)))

\* a plausible slip: the total counts two arms whatever number_of_arms is
ParallelResult_two_arms(self, x, effect_size, std_dev, number_of_arms) ==
    LET n_per_group == math_ceil(x)
        adjusted_n_per_group == DropoutAdjust(self, n_per_group)
    IN [design |-> "parallel",
        n_per_group |-> n_per_group,
        total_n |-> n_per_group * 2,
        adjusted_n_per_group |-> adjusted_n_per_group,
        adjusted_total_n |-> adjusted_n_per_group * 2,
        effect_size |-> effect_size,
        cohens_d |-> FDiv(effect_size, std_dev),
        alpha |-> self.alpha,
        power |-> self.power,
        dropout_rate |-> self.dropout_rate]

\* lines 81-101 of calculate_parallel_design: rounding, totals, dropout
ParallelResult(self, x, effect_size, std_dev, number_of_arms) ==
    LET n_per_group == math_ceil(x)
        adjusted_n_per_group == DropoutAdjust(self, n_per_group)
    IN [design |-> "parallel",
        n_per_group |-> n_per_group,
        total_n |-> n_per_group * number_of_arms,
        adjusted_n_per_group |-> adjusted_n_per_group,
        adjusted_total_n |-> adjusted_n_per_group * number_of_arms,
        effect_size |-> effect_size,
        cohens_d |-> FDiv(effect_size, std_dev),
        alpha |-> self.alpha,
        power |-> self.power,
        dropout_rate |-> self.dropout_rate]

\* a plausible slip: effect_size and std_dev exchanged in the formula
ParallelRealN_swapped(self, effect_size, std_dev, allocation_ratio) ==
    LET n_per_group ==
            FDiv(FMul(FMul(TwoSidedFactor(self), <<2, 1>>), FSquare(effect_size)),
                 FSquare(std_dev))
        n_group1 == FDiv(FMul(n_per_group, allocation_ratio),
                         FAdd(<<1, 1>>, allocation_ratio))
        n_group2 == FDiv(n_per_group, FAdd(<<1, 1>>, allocation_ratio))
    IN IF allocation_ratio # <<1, 1>> THEN PyMax(n_group1, n_group2) ELSE n_per_group

\* a plausible slip: the smaller of the two unequal arms taken for the larger
ParallelRealN_min(self, effect_size, std_dev, allocation_ratio) ==
    LET n_per_group ==
            FDiv(FMul(FMul(TwoSidedFactor(self), <<2, 1>>), FSquare(std_dev)),
                 FSquare(effect_size))
        n_group1 == FDiv(FMul(n_per_group, allocation_ratio),
                         FAdd(<<1, 1>>, allocation_ratio))
        n_group2 == FDiv(n_per_group, FAdd(<<1, 1>>, allocation_ratio))
    IN IF allocation_ratio # <<1, 1>>
       THEN (IF FGt(n_group1, n_group2) THEN n_group2 ELSE n_group1)
       ELSE n_per_group

\* a plausible slip: the first arm's share taken whatever the ratio
ParallelRealN_first_arm(self, effect_size, std_dev, allocation_ratio) ==
    LET n_per_group ==
            FDiv(FMul(FMul(TwoSidedFactor(self), <<2, 1>>), FSquare(std_dev)),
                 FSquare(effect_size))
        n_group1 == FDiv(FMul(n_per_group, allocation_ratio),
                         FAdd(<<1, 1>>, allocation_ratio))
    IN IF allocation_ratio # <<1, 1>> THEN n_group1 ELSE n_per_group

\* lines 70-78: the real-valued per-group requirement, allocation included
ParallelRealN(self, effect_size, std_dev, allocation_ratio) ==
    LET n_per_group ==
            FDiv(FMul(FMul(TwoSidedFactor(self), <<2, 1>>), FSquare(std_dev)),
                 FSquare(effect_size))
        n_group1 == FDiv(FMul(n_per_group, allocation_ratio),
                         FAdd(<<1, 1>>, allocation_ratio))
        n_group2 == FDiv(n_per_group, FAdd(<<1, 1>>, allocation_ratio))
    IN IF allocation_ratio # <<1, 1>> THEN PyMax(n_group1, n_group2) ELSE n_per_group

calculate_parallel_design(self, effect_size, std_dev, number_of_arms, allocation_ratio) ==
    IF IsZero(std_dev) THEN Raise(self, "ZeroDivisionError")
    ELSE IF IsZero(FSquare(effect_size)) THEN Raise(self, "ZeroDivisionError")
    ELSE IF allocation_ratio # <<1, 1>> /\ IsZero(FAdd(<<1, 1>>, allocation_ratio))
    THEN Raise(self, "ZeroDivisionError")
    ELSE LET x == ParallelRealN(self, effect_size, std_dev, allocation_ratio)
         IN IF CeilError(x) # "none" THEN Raise(self, CeilError(x))
            ELSE IF IsZero(FSub(<<1, 1>>, self.dropout_rate))
            THEN Raise(self, "ZeroDivisionError")
            ELSE Return(self, x,
                        ParallelResult(self, x, effect_size, std_dev, number_of_arms))

\* a plausible slip: the correlation factor taken as 1 + correlation
CrossoverRealN_plus(self, effect_size, std_dev, correlation) ==
    FDiv(FMul(FMul(FMul(TwoSidedFactor(self), <<2, 1>>), FSquare(std_dev)),
              FAdd(<<1, 1>>, correlation)),
         FSquare(effect_size))

\* a plausible slip: the within-subject correlation left out of the formula
CrossoverRealN_no_correlation(self, effect_size, std_dev, correlation) ==
    FDiv(FMul(FMul(TwoSidedFactor(self), <<2, 1>>), FSquare(std_dev)),
         FSquare(effect_size))

\* lines 134-137: the real-valued subject count of the crossover design
CrossoverRealN(self, effect_size, std_dev, correlation) ==
    FDiv(FMul(FMul(FMul(TwoSidedFactor(self), <<2, 1>>), FSquare(std_dev)),
              FSub(<<1, 1>>, correlation)),
         FSquare(effect_size))

\* a plausible slip: a call that stores the rate it used back on the instance
calculate_crossover_design_storing(self, effect_size, std_dev, correlation) ==
    LET kept_self == [self EXCEPT !.dropout_rate = <<0, 1>>]
    IN IF IsZero(FSquare(effect_size)) THEN Raise(kept_self, "ZeroDivisionError")
       ELSE LET x == CrossoverRealN(self, effect_size, std_dev, correlation)
            IN IF CeilError(x) # "none" THEN Raise(kept_self, CeilError(x))
               ELSE IF IsZero(FSub(<<1, 1>>, self.dropout_rate))
               THEN Raise(kept_self, "ZeroDivisionError")
               ELSE Return(kept_self, x,
                           [design |-> "crossover",
                            n_subjects |-> math_ceil(x),
                            adjusted_n_subjects |-> DropoutAdjust(self, math_ceil(x)),
                            effect_size |-> effect_size,
                            std_dev |-> std_dev,
                            correlation |-> correlation,
                            alpha |-> self.alpha,
                            power |-> self.power,
                            dropout_rate |-> self.dropout_rate])

calculate_crossover_design(self, effect_size, std_dev, correlation) ==
    IF IsZero(FSquare(effect_size)) THEN Raise(self, "ZeroDivisionError")
    ELSE LET x == CrossoverRealN(self, effect_size, std_dev, correlation)
         IN IF CeilError(x) # "none" THEN Raise(self, CeilError(x))
            ELSE IF IsZero(FSub(<<1, 1>>, self.dropout_rate))
            THEN Raise(self, "ZeroDivisionError")
            ELSE Return(self, x,
                        [design |-> "crossover",
                         n_subjects |-> math_ceil(x),
                         adjusted_n_subjects |-> DropoutAdjust(self, math_ceil(x)),
                         effect_size |-> effect_size,
                         std_dev |-> std_dev,
                         correlation |-> correlation,
                         alpha |-> self.alpha,
                         power |-> self.power,
                         dropout_rate |-> self.dropout_rate])

\* a plausible slip: the two-sided quantile used in the bioequivalence formula
BioequivalenceRealN_two_sided(self, cv, bioequivalence_margin, design) ==
    LET z_alpha == norm_ppf(FSub(<<1, 1>>, FDiv(self.alpha, <<2, 1>>)))
        z_beta == norm_ppf(self.power)
        log_margin == math_log(FAdd(<<1, 1>>, bioequivalence_margin))
        factor == IF design = "crossover" THEN <<2, 1>> ELSE <<4, 1>>
    IN FDiv(FMul(FMul(FSquare(FAdd(z_alpha, z_beta)), factor), FSquare(cv)),
            FSquare(log_margin))

\* lines 180-195: the real-valued count of the bioequivalence design; the
\* one-sided z_alpha, and the factor 4 for every design but "crossover"
BioequivalenceRealN(self, cv, bioequivalence_margin, design) ==
    LET z_alpha == norm_ppf(FSub(<<1, 1>>, self.alpha))
        z_beta == norm_ppf(self.power)
        log_margin == math_log(FAdd(<<1, 1>>, bioequivalence_margin))
        factor == IF design = "crossover" THEN <<2, 1>> ELSE <<4, 1>>
    IN FDiv(FMul(FMul(FSquare(FAdd(z_alpha, z_beta)), factor), FSquare(cv)),
            FSquare(log_margin))

\* a plausible slip: the parallel variant halves first and inflates the half
BioequivalenceResult_halve_first(self, x, cv, bioequivalence_margin, design) ==
    LET n == math_ceil(x)
        adjusted_n == DropoutAdjust(self, n)
        adjusted_half == DropoutAdjust(self, n \div 2)
    IN [design |-> design,
        n_subjects |-> IF design = "crossover" THEN n ELSE n \div 2,
        n_per_group |-> IF design = "parallel" THEN n \div 2 ELSE None,
        adjusted_n_subjects |->
            IF design = "crossover" THEN adjusted_n ELSE adjusted_half,
        adjusted_n_per_group |->
            IF design = "parallel" THEN adjusted_half ELSE None,
        cv |-> cv,
        bioequivalence_margin |-> bioequivalence_margin,
        alpha |-> self.alpha,
        power |-> self.power,
        dropout_rate |-> self.dropout_rate]

\* lines 197-211: rounding, dropout and the halving of the result dictionary
BioequivalenceResult(self, x, cv, bioequivalence_margin, design) ==
    LET n == math_ceil(x)
        adjusted_n == DropoutAdjust(self, n)
    IN [design |-> design,
        n_subjects |-> IF design = "crossover" THEN n ELSE n \div 2,
        n_per_group |-> IF design = "parallel" THEN n \div 2 ELSE None,
        adjusted_n_subjects |->
            IF design = "crossover" THEN adjusted_n ELSE adjusted_n \div 2,
        adjusted_n_per_group |->
            IF design = "parallel" THEN adjusted_n \div 2 ELSE None,
        cv |-> cv,
        bioequivalence_margin |-> bioequivalence_margin,
        alpha |-> self.alpha,
        power |-> self.power,
        dropout_rate |-> self.dropout_rate]

calculate_bioequivalence(self, cv, bioequivalence_margin, design) ==
    LET x == BioequivalenceRealN(self, cv, bioequivalence_margin, design)
    IN IF CeilError(x) # "none" THEN Raise(self, CeilError(x))
       ELSE IF IsZero(FSub(<<1, 1>>, self.dropout_rate))
       THEN Raise(self, "ZeroDivisionError")
       ELSE Return(self, x,
                   BioequivalenceResult(self, x, cv, bioequivalence_margin, design))

\* a plausible slip: each result put in front of the list, reversing the order
RECURSIVE SweepFrom_prepend(_, _, _, _, _)
SweepFrom_prepend(self, effect_sizes, std_dev, design, results) ==
    IF effect_sizes = <<>>
    THEN [self |-> self, raised |-> "none", x |-> NaN, result |-> NoResult,
          results |-> results]
    ELSE LET f == IF design = "parallel"
                  THEN calculate_parallel_design(self, Head(effect_sizes), std_dev,
                                                 2, <<1, 1>>)
                  ELSE calculate_crossover_design(self, Head(effect_sizes), std_dev,
                                                  <<1, 2>>)
         IN IF f.raised # "none" THEN Raise(f.self, f.raised)
            ELSE SweepFrom_prepend(f.self, Tail(effect_sizes), std_dev, design,
                                   <<f.result>> \o results)

\* a plausible slip: a failing element ends the sweep quietly and the results
\* gathered so far are returned
RECURSIVE SweepFrom_partial(_, _, _, _, _)
SweepFrom_partial(self, effect_sizes, std_dev, design, results) ==
    IF effect_sizes = <<>>
    THEN [self |-> self, raised |-> "none", x |-> NaN, result |-> NoResult,
          results |-> results]
    ELSE LET f == IF design = "parallel"
                  THEN calculate_parallel_design(self, Head(effect_sizes), std_dev,
                                                 2, <<1, 1>>)
                  ELSE calculate_crossover_design(self, Head(effect_sizes), std_dev,
                                                  <<1, 2>>)
         IN IF f.raised # "none"
            THEN [self |-> f.self, raised |-> "none", x |-> NaN, result |-> NoResult,
                  results |-> results]
            ELSE SweepFrom_partial(f.self, Tail(effect_sizes), std_dev, design,
                                   Append(results, f.result))

\* lines 239-247: the loop of sensitivity_analysis from `results` on; the first
\* call that raises ends the sweep and nothing is returned
RECURSIVE SweepFrom(_, _, _, _, _)
SweepFrom(self, effect_sizes, std_dev, design, results) ==
    IF effect_sizes = <<>>
    THEN [self |-> self, raised |-> "none", x |-> NaN, result |-> NoResult,
          results |-> results]
    ELSE LET f == IF design = "parallel"
                  THEN calculate_parallel_design(self, Head(effect_sizes), std_dev,
                                                 2, <<1, 1>>)
                  ELSE calculate_crossover_design(self, Head(effect_sizes), std_dev,
                                                  <<1, 2>>)
         IN IF f.raised # "none" THEN Raise(f.self, f.raised)
            ELSE SweepFrom(f.self, Tail(effect_sizes), std_dev, design,
                           Append(results, f.result))

sensitivity_analysis(self, effect_sizes, std_dev, design) ==
    SweepFrom(self, effect_sizes, std_dev, design, <<>>)

\* ---------------------------------------------------- StudyDesignSelector

\* an Optional value: Absent for Python's None, Some(v) for the value v
Absent == <<>>
Some(v) == <<v>>
IsAbsent(o) == o = <<>>
ValueOf(o) == o[1]

\* int(x) of a finite float: truncation toward zero
py_int(x) == IF x[1] >= 0 THEN x[1] \div x[2] ELSE -((-x[1]) \div x[2])

\* the fields of design_criteria the selector reads
design_criteria ==
    [parallel |-> [min_arms |-> 2, allows_crossover |-> FALSE, typical_duration |-> 28],
     crossover |-> [min_arms |-> 2, allows_crossover |-> TRUE, typical_duration |-> 56],
     factorial |-> [min_arms |-> 4, allows_crossover |-> FALSE, typical_duration |-> 28],
     adaptive |-> [min_arms |-> 2, allows_crossover |-> FALSE, typical_duration |-> 42]]

PKParameter(parameter_name, value) ==
    [parameter_name |-> parameter_name, value |-> value]

PKProfile(parameters) == [parameters |-> parameters]

\* a plausible slip: a parameter of a name already present put in its place,
\* as a dictionary keyed by name would
add_parameter_replacing(self, parameter) ==
    IF \E k \in DOMAIN self.parameters :
           self.parameters[k].parameter_name = parameter.parameter_name
    THEN [self EXCEPT !.parameters =
             [k \in DOMAIN self.parameters |->
                 IF self.parameters[k].parameter_name = parameter.parameter_name
                 THEN parameter ELSE self.parameters[k]]]
    ELSE [self EXCEPT !.parameters = Append(@, parameter)]

\* PKProfile.add_parameter: self.parameters.append(parameter)
add_parameter(self, parameter) ==
    [self EXCEPT !.parameters = Append(@, parameter)]

\* the loop of PKProfile.get_parameter over the parameters still to visit
RECURSIVE FirstNamed(_, _)
FirstNamed(parameters, parameter_name) ==
    IF parameters = <<>> THEN Absent
    ELSE IF Head(parameters).parameter_name = parameter_name
    THEN Some(Head(parameters))
    ELSE FirstNamed(Tail(parameters), parameter_name)

\* PKProfile.get_parameter: the first parameter of that name, or None
get_parameter(self, parameter_name) == FirstNamed(self.parameters, parameter_name)

StudyDesign(design_type, number_of_arms, treatment_duration, washout_period) ==
    [design_type |-> design_type,
     number_of_arms |-> number_of_arms,
     treatment_duration |-> treatment_duration,
     washout_period |-> washout_period,
     blinding |-> "double-blind",
     randomization |-> TRUE]

\* a plausible slip: the threshold taken as >= 24 hours
crossover_feasible_inclusive(pk_profile) ==
    IF IsAbsent(pk_profile) THEN TRUE
    ELSE LET half_life_param == get_parameter(ValueOf(pk_profile), "t1/2")
         IN ~(~IsAbsent(half_life_param)
              /\ FGe(ValueOf(half_life_param).value, <<24, 1>>))

\* lines 71-77: False only for a profile whose t1/2 parameter exceeds 24 hours
crossover_feasible(pk_profile) ==
    IF IsAbsent(pk_profile) THEN TRUE
    ELSE LET half_life_param == get_parameter(ValueOf(pk_profile), "t1/2")
         IN ~(~IsAbsent(half_life_param)
              /\ FGt(ValueOf(half_life_param).value, <<24, 1>>))

\* lines 80-88: the design label from arm count, feasibility and the duration
\* constraint (a constraint of None or 0 is falsy and constrains nothing)
select_design_type(pk_profile, number_of_treatments, study_duration_constraint) ==
    IF number_of_treatments = 2 /\ crossover_feasible(pk_profile)
    THEN IF ~IsAbsent(study_duration_constraint)
            /\ ValueOf(study_duration_constraint) # 0
            /\ ValueOf(study_duration_constraint) < 56
         THEN "parallel"
         ELSE "crossover"
    ELSE IF number_of_treatments > 2
    THEN (IF number_of_treatments = 4 THEN "factorial" ELSE "parallel")
    ELSE "parallel"

\* lines 91-96: int(5 * half_life / 24) for a crossover with a t1/2 parameter
washout_period_for(design_type, pk_profile) ==
    IF design_type = "crossover" /\ ~IsAbsent(pk_profile)
    THEN LET half_life_param == get_parameter(ValueOf(pk_profile), "t1/2")
         IN IF ~IsAbsent(half_life_param)
            THEN Some(py_int(FDiv(FMul(<<5, 1>>, ValueOf(half_life_param).value),
                                  <<24, 1>>)))
            ELSE Absent
    ELSE Absent

\* recommend_design; the drug is only logged
recommend_design(pk_profile, number_of_treatments, study_duration_constraint) ==
    LET design_type == select_design_type(pk_profile, number_of_treatments,
                                          study_duration_constraint)
    IN StudyDesign(design_type, number_of_treatments,
                   design_criteria[design_type].typical_duration,
                   washout_period_for(design_type, pk_profile))

\* the texts validate_design appends to warnings
UnknownTypeWarning(design_type) ==
    [text |-> "Unknown design type", design_type |-> design_type, min_arms |-> 0]
MinArmsWarning(design_type, min_arms) ==
    [text |-> "design requires at least min_arms arms", design_type |-> design_type,
     min_arms |-> min_arms]
WashoutWarning ==
    [text |-> "Crossover design should specify washout period",
     design_type |-> "crossover", min_arms |-> 0]

\* a plausible slip: a crossover design without washout rejected as invalid
validate_design_strict(design) ==
    LET known == design.design_type \in DOMAIN design_criteria
        min_arms == IF known THEN design_criteria[design.design_type].min_arms ELSE 1
        few == design.number_of_arms < min_arms
        no_washout == design.design_type = "crossover"
                      /\ (IsAbsent(design.washout_period)
                          \/ ValueOf(design.washout_period) = 0)
    IN [is_valid |-> known /\ ~few /\ ~no_washout,
        warnings |->
            (IF known THEN <<>> ELSE <<UnknownTypeWarning(design.design_type)>>)
            \o (IF few THEN <<MinArmsWarning(design.design_type, min_arms)>> ELSE <<>>)
            \o (IF no_washout THEN <<WashoutWarning>> ELSE <<>>)]

\* validate_design: (is_valid, warnings)
validate_design(design) ==
    LET known == design.design_type \in DOMAIN design_criteria
        min_arms == IF known THEN design_criteria[design.design_type].min_arms ELSE 1
        few == design.number_of_arms < min_arms
        no_washout == design.design_type = "crossover"
                      /\ (IsAbsent(design.washout_period)
                          \/ ValueOf(design.washout_period) = 0)
    IN [is_valid |-> known /\ ~few,
        warnings |->
            (IF known THEN <<>> ELSE <<UnknownTypeWarning(design.design_type)>>)
            \o (IF few THEN <<MinArmsWarning(design.design_type, min_arms)>> ELSE <<>>)
            \o (IF no_washout THEN <<WashoutWarning>> ELSE <<>>)]

\* ------------------------------------------------------ RegulatoryChecker

Endpoint(name, endpoint_type) == [name |-> name, endpoint_type |-> endpoint_type]

\* the fields of ClinicalStudy the checker and the synopsis read; the drug is
\* required and only interpolated into text
ClinicalStudy(study_id, title, pk_profile, design, population, endpoints, sample_size) ==
    [study_id |-> study_id,
     title |-> title,
     pk_profile |-> pk_profile,
     design |-> design,
     population |-> population,
     endpoints |-> endpoints,
     sample_size |-> sample_size]

RegulatoryViolation(severity, category, description) ==
    [severity |-> severity, category |-> category, description |-> description]

_check_study_identification(study) ==
    (IF study.study_id = "" \/ Len(study.study_id) < 5
     THEN <<RegulatoryViolation("critical", "identification",
                                "Study ID is missing or too short")>>
     ELSE <<>>)
    \o (IF study.title = "" \/ Len(study.title) < 10
        THEN <<RegulatoryViolation("major", "identification",
                                   "Study title is missing or insufficient")>>
        ELSE <<>>)

_check_study_design(design) ==
    (IF design.blinding \notin {"single-blind", "double-blind"}
     THEN <<RegulatoryViolation("minor", "design",
                                "Open-label design may require additional justification")>>
     ELSE <<>>)
    \o (IF ~design.randomization
        THEN <<RegulatoryViolation("major", "design", "Non-randomized design")>>
        ELSE <<>>)
    \o (IF design.design_type = "crossover"
           /\ (IsAbsent(design.washout_period) \/ ValueOf(design.washout_period) = 0)
        THEN <<RegulatoryViolation("major", "design",
                                   "Crossover design missing washout period")>>
        ELSE <<>>)

IsPrimary(e) == e.endpoint_type = "primary"

\* a plausible slip: the warning raised from two primary endpoints on
_check_endpoints_from_two(endpoints) ==
    IF endpoints = <<>>
    THEN <<RegulatoryViolation("critical", "endpoints", "No endpoints defined")>>
    ELSE LET primary_endpoints == SelectSeq(endpoints, IsPrimary)
         IN (IF primary_endpoints = <<>>
             THEN <<RegulatoryViolation("critical", "endpoints",
                                        "No primary endpoint defined")>>
             ELSE <<>>)
            \o (IF Len(primary_endpoints) >= 2
                THEN <<RegulatoryViolation("minor", "endpoints",
                           "Multiple primary endpoints may complicate analysis")>>
                ELSE <<>>)

_check_endpoints(endpoints) ==
    IF endpoints = <<>>
    THEN <<RegulatoryViolation("critical", "endpoints", "No endpoints defined")>>
    ELSE LET primary_endpoints == SelectSeq(endpoints, IsPrimary)
         IN (IF primary_endpoints = <<>>
             THEN <<RegulatoryViolation("critical", "endpoints",
                                        "No primary endpoint defined")>>
             ELSE <<>>)
            \o (IF Len(primary_endpoints) > 2
                THEN <<RegulatoryViolation("minor", "endpoints",
                           "Multiple primary endpoints may complicate analysis")>>
                ELSE <<>>)

\* a plausible slip: a sample size of exactly 10 rejected as too small
_check_sample_size_inclusive(study) ==
    IF IsAbsent(study.sample_size) \/ ValueOf(study.sample_size) = 0
       \/ ValueOf(study.sample_size) <= 10
    THEN <<RegulatoryViolation("major", "sample_size",
                               "Sample size is missing or too small")>>
    ELSE <<>>

\* a sample size of None or 0 is falsy
_check_sample_size(study) ==
    IF IsAbsent(study.sample_size) \/ ValueOf(study.sample_size) = 0
       \/ ValueOf(study.sample_size) < 10
    THEN <<RegulatoryViolation("major", "sample_size",
                               "Sample size is missing or too small")>>
    ELSE <<>>

\* the placeholder of lines 174-181: no violation
_check_informed_consent(study) == <<>>

check_study_compliance(study) ==
    _check_study_identification(study)
    \o (IF ~IsAbsent(study.design) THEN _check_study_design(ValueOf(study.design))
        ELSE <<>>)
    \o _check_endpoints(study.endpoints)
    \o _check_sample_size(study)
    \o _check_informed_consent(study)

\* ------------------------------------------------------ SynopsisGenerator

\* a rendered text is the sequence of its headings and line labels; the
\* values interpolated into the lines are left out
Rendered(text) == [raised |-> "none", text |-> text]

\* an attribute or method looked up on None
AttributeError == [raised |-> "AttributeError", text |-> <<>>]

StudyPopulation(disease_stage, prior_treatment, inclusion_criteria, exclusion_criteria) ==
    [disease_stage |-> disease_stage,
     prior_treatment |-> prior_treatment,
     inclusion_criteria |-> inclusion_criteria,
     exclusion_criteria |-> exclusion_criteria]

title_section(study) ==
    Rendered(<<"STUDY SYNOPSIS", "Protocol Number", "Title", "Drug", "Indication", "Date">>)

background_section == Rendered(<<"BACKGROUND AND RATIONALE">>)

IsSecondary(e) == e.endpoint_type = "secondary"

objectives_section(endpoints) ==
    Rendered(<<"STUDY OBJECTIVES">>
             \o (IF SelectSeq(endpoints, IsPrimary) # <<>>
                 THEN <<"Primary Objectives">> ELSE <<>>)
             \o (IF SelectSeq(endpoints, IsSecondary) # <<>>
                 THEN <<"Secondary Objectives">> ELSE <<>>))

\* design is None when the study has no design
study_design_section(design) ==
    IF IsAbsent(design) THEN AttributeError
    ELSE Rendered(<<"STUDY DESIGN", "Design Type", "Number of Arms",
                    "Treatment Duration", "Blinding", "Randomization">>
                  \o (IF ~IsAbsent(ValueOf(design).washout_period)
                         /\ ValueOf(ValueOf(design).washout_period) # 0
                      THEN <<"Washout Period">> ELSE <<>>))

study_population_section(population) ==
    IF IsAbsent(population)
    THEN Rendered(<<"STUDY POPULATION",
                    "To be determined based on study requirements.">>)
    ELSE Rendered(<<"STUDY POPULATION", "Age Range", "Gender">>
                  \o (IF ValueOf(population).disease_stage # ""
                      THEN <<"Disease Stage">> ELSE <<>>)
                  \o (IF ValueOf(population).prior_treatment # ""
                      THEN <<"Prior Treatment">> ELSE <<>>)
                  \o (IF ValueOf(population).inclusion_criteria # <<>>
                      THEN <<"Inclusion Criteria">> ELSE <<>>)
                  \o (IF ValueOf(population).exclusion_criteria # <<>>
                      THEN <<"Exclusion Criteria">> ELSE <<>>))

treatment_section(design) ==
    IF IsAbsent(design) THEN AttributeError
    ELSE Rendered(<<"TREATMENT", "Investigational Product", "Active Ingredient",
                    "Dosage Form", "Route of Administration", "Treatment Duration",
                    "Number of Treatment Arms">>)

endpoints_section(endpoints) ==
    Rendered(<<"STUDY ENDPOINTS">>
             \o [k \in DOMAIN endpoints |-> endpoints[k].endpoint_type])

statistical_analysis_section(design, sample_size) ==
    IF IsAbsent(design) THEN AttributeError
    ELSE Rendered(<<"STATISTICAL ANALYSIS", "Analysis Population", "Primary Analysis">>
                  \o (IF ValueOf(design).design_type = "parallel"
                      THEN <<"For parallel design">>
                      ELSE IF ValueOf(design).design_type = "crossover"
                      THEN <<"For crossover design">>
                      ELSE <<>>))

sample_size_section(sample_size_result) ==
    IF IsAbsent(sample_size_result) THEN AttributeError
    ELSE LET r == ValueOf(sample_size_result)
         IN Rendered(<<"SAMPLE SIZE CALCULATION">>
                     \o (IF r.design = "parallel"
                         THEN <<"Design: Parallel", "Sample Size per Group",
                                "Total Sample Size">>
                         ELSE IF r.design = "crossover"
                         THEN <<"Design: Crossover", "Total Subjects">>
                         ELSE <<>>)
                     \o <<"Statistical Parameters", "Significance Level", "Power",
                          "Expected Dropout Rate">>
                     \o (IF "effect_size" \in DOMAIN r
                         THEN <<"Expected Effect Size">> ELSE <<>>))

regulatory_section == Rendered(<<"REGULATORY CONSIDERATIONS", "Ethics", "Registration">>)

SectionNames ==
    {"title", "background", "objectives", "study_design", "study_population",
     "treatment", "endpoints", "statistical_analysis", "sample_size", "regulatory"}

\* generate_section: the lambda of section_map for section_name is called, or
\* ValueError is raised for a name the map does not hold
generate_section(section_name, study, sample_size_result) ==
    CASE section_name = "title" -> title_section(study)
      [] section_name = "background" -> background_section
      [] section_name = "objectives" -> objectives_section(study.endpoints)
      [] section_name = "study_design" -> study_design_section(study.design)
      [] section_name = "study_population" ->
             study_population_section(study.population)
      [] section_name = "treatment" -> treatment_section(study.design)
      [] section_name = "endpoints" -> endpoints_section(study.endpoints)
      [] section_name = "statistical_analysis" ->
             statistical_analysis_section(study.design, study.sample_size)
      [] section_name = "sample_size" -> sample_size_section(sample_size_result)
      [] section_name = "regulatory" -> regulatory_section
      [] OTHER -> [raised |-> "ValueError", text |-> <<>>]

\* one part of the synopsis followed by its rule; parts are rendered only
\* for what the study holds, so none of them raises
SynopsisPart(present, section, rule) ==
    IF present THEN section.text \o <<rule>> ELSE <<>>

generate_full_synopsis(study, sample_size_result) ==
    Rendered(
        SynopsisPart(TRUE, title_section(study), "====")
        \o SynopsisPart(TRUE, background_section, "----")
        \o SynopsisPart(study.endpoints # <<>>, objectives_section(study.endpoints), "----")
        \o SynopsisPart(~IsAbsent(study.design), study_design_section(study.design), "----")
        \o SynopsisPart(TRUE, study_population_section(study.population), "----")
        \o SynopsisPart(~IsAbsent(study.design), treatment_section(study.design), "----")
        \o SynopsisPart(study.endpoints # <<>>, endpoints_section(study.endpoints), "----")
        \o SynopsisPart(~IsAbsent(study.design),
                        statistical_analysis_section(study.design, study.sample_size),
                        "----")
        \o SynopsisPart(~IsAbsent(sample_size_result),
                        sample_size_section(sample_size_result), "----")
        \o SynopsisPart(TRUE, regulatory_section, "===="))

\* ---------------------------------------------------------------- inputs

ValidEffects == {<<e, 1>> : e \in 1..MaxEffect}
\* the non-positive magnitudes: zero and a negative one
BadMagnitudes == {<<0, 1>>, <<-1, 1>>}
ValidStdDevs == {<<1, 1>>, <<2, 1>>}
ArmCounts == {2, 3}
Ratios == {<<1, 2>>, <<1, 1>>, <<2, 1>>}
Correlations == {<<0, 1>>, <<1, 2>>, <<3, 4>>}
ValidCVs == {<<1, 32>>, <<3, 20>>, <<1, 4>>}
Margins == {<<1, 5>>, <<1, 4>>}
Designs == {"crossover", "parallel", "factorial"}
\* src/demo/example_workflow.py lines 93-110: the inputs main passes
ScenarioEffects == {<<300, 1>>}
ScenarioStdDevs == {<<500, 1>>}
ScenarioCorrelations == {<<3, 5>>}

Config(alpha, power, dropout_rate) ==
    [alpha |-> alpha, power |-> power, dropout_rate |-> dropout_rate]

\* src/config.py: DEFAULT_ALPHA, DEFAULT_POWER, DEFAULT_DROPOUT_RATE
DefaultConfig == Config(<<1, 20>>, <<4, 5>>, <<3, 20>>)

ValidConfigs ==
    {Config(a, p, d) : a \in {<<1, 20>>, <<1, 10>>}, p \in {<<4, 5>>, <<9, 10>>},
                       d \in {<<0, 1>>, <<3, 20>>, <<1, 2>>}}

\* the defaults with one attribute outside its domain
InvalidConfigs ==
    {[DefaultConfig EXCEPT !.alpha = a] : a \in {<<0, 1>>, <<3, 2>>}}
    \cup {[DefaultConfig EXCEPT !.power = p] : p \in {<<0, 1>>, <<1, 1>>}}
    \cup {[DefaultConfig EXCEPT !.dropout_rate = d] : d \in {<<1, 1>>, <<3, 2>>}}

Configs == ValidConfigs \cup InvalidConfigs

IsValidConfig(c) ==
    /\ FGt(c.alpha, <<0, 1>>) /\ FGt(<<1, 1>>, c.alpha)
    /\ FGt(c.power, <<0, 1>>) /\ FGt(<<1, 1>>, c.power)
    /\ FGe(c.dropout_rate, <<0, 1>>) /\ FGt(<<1, 1>>, c.dropout_rate)

IsPositive(x) == FGt(x, <<0, 1>>)

SeqsUpTo(S, n) == UNION {[1..k -> S] : k \in 0..n}

\* ------------------------------------------------------------ API (FastAPI)

\* the response of a handler that returned `body`
Response(body) ==
    [status_code |-> 200, exception |-> "none", detail |-> <<>>, body |-> body]

\* the response FastAPI sends for a raised HTTPException; `exception` names
\* the exception whose str() became the detail, "none" for a literal detail
HTTPException(status_code, exception, detail) ==
    [status_code |-> status_code, exception |-> exception, detail |-> detail,
     body |-> NoResult]

SampleSizeRequest(design_type, effect_size, std_dev, number_of_arms, cv) ==
    [design_type |-> design_type, effect_size |-> effect_size, std_dev |-> std_dev,
     number_of_arms |-> number_of_arms, cv |-> cv]

\* `params.cv` as a condition: None and 0.0 are falsy
cv_given(params) == ~IsAbsent(params.cv) /\ ~IsZero(ValueOf(params.cv))

\* get_sample_size_calculator() with its default arguments
default_calculator ==
    SampleSizeCalculator_init(<<>>, 1, DefaultConfig.alpha, DefaultConfig.power,
                              DefaultConfig.dropout_rate)[1]

\* what leaves the try block after the calculator call that left frame f: the
\* result it returned, or the exception it raised
Calculated(f) ==
    IF f.raised # "none" THEN HTTPException(0, f.raised, <<>>) ELSE Response(f.result)

\* the body of the try block of calculate_sample_size, lines 183-210: what it
\* returns, or the exception that leaves it
calculate_sample_size_try(params) ==
    IF params.design_type = "parallel"
    THEN Calculated(calculate_parallel_design(default_calculator, params.effect_size,
                                              params.std_dev, params.number_of_arms,
                                              <<1, 1>>))
    ELSE IF params.design_type = "crossover"
    THEN Calculated(calculate_crossover_design(default_calculator, params.effect_size,
                                               params.std_dev, <<1, 2>>))
    ELSE IF params.design_type = "bioequivalence" /\ cv_given(params)
    THEN Calculated(calculate_bioequivalence(default_calculator, ValueOf(params.cv),
                                             <<1, 5>>, "crossover"))
    ELSE HTTPException(400, "none", <<"Unsupported design type", params.design_type>>)

\* lines 212-214: `except Exception` catches whatever left the try block, the
\* HTTPException of line 205 included, and answers 500 with str(e) as detail
except_Exception(tried) ==
    IF tried.status_code = 200 THEN tried
    ELSE HTTPException(500,
                       IF tried.exception = "none" THEN "HTTPException"
                       ELSE tried.exception,
                       tried.detail)

calculate_sample_size(params) == except_Exception(calculate_sample_size_try(params))

StudyRequest(study_id, title, design_type, endpoints) ==
    [study_id |-> study_id, title |-> title, design_type |-> design_type,
     endpoints |-> endpoints]

\* a plausible slip: the request's endpoints copied onto the study, as
\* generate_synopsis does
check_regulatory_compliance_with_endpoints(study_request) ==
    LET study ==
            ClinicalStudy(study_request.study_id, study_request.title, Absent,
                          IF ~IsAbsent(study_request.design_type)
                             /\ ValueOf(study_request.design_type) # ""
                          THEN Some(StudyDesign(ValueOf(study_request.design_type),
                                                2, 28, Absent))
                          ELSE Absent,
                          Absent,
                          IF IsAbsent(study_request.endpoints) THEN <<>>
                          ELSE ValueOf(study_request.endpoints),
                          Absent)
        violations == check_study_compliance(study)
    IN Response([study_id |-> study.study_id,
                 compliant |-> Len(violations) = 0,
                 violations |-> violations])

\* lines 218-274: the study is built from study_id, title and drug only, with
\* a two-arm 28-day design when design_type is given (None and "" are falsy)
check_regulatory_compliance(study_request) ==
    LET study ==
            ClinicalStudy(study_request.study_id, study_request.title, Absent,
                          IF ~IsAbsent(study_request.design_type)
                             /\ ValueOf(study_request.design_type) # ""
                          THEN Some(StudyDesign(ValueOf(study_request.design_type),
                                                2, 28, Absent))
                          ELSE Absent,
                          Absent, <<>>, Absent)
        violations == check_study_compliance(study)
    IN Response([study_id |-> study.study_id,
                 compliant |-> Len(violations) = 0,
                 violations |-> violations])

\* ----------------------------------------------------------------- state

VARIABLES
    calcs,      \* the calculator objects: instance -> its three attributes
    ctor_args,  \* instance -> the arguments its constructor was given
    last,       \* the latest call and the frame it left
    kept,       \* an earlier call and its frame, remembered for comparison
    profile     \* the PKProfile object a PK data source is filling

vars == <<calcs, ctor_args, last, kept, profile>>

NoCall ==
    [inst |-> 0, op |-> "none", args |-> [none |-> TRUE], raised |-> "none",
     x |-> NaN, result |-> NoResult, results |-> <<>>]

Init ==
    /\ calcs = <<>>
    /\ ctor_args = <<>>
    /\ last = NoCall
    /\ kept = NoCall
    /\ profile = PKProfile(<<>>)

\* get_sample_size_calculator(alpha, power, dropout_rate) building instance i
get_sample_size_calculator(I, C) ==
    \E i \in I \ DOMAIN calcs, c \in C :
        /\ \A j \in I : j < i => j \in DOMAIN calcs
        /\ calcs' = SampleSizeCalculator_init(calcs, i, c.alpha, c.power, c.dropout_rate)
        /\ ctor_args' = [j \in DOMAIN ctor_args \cup {i} |->
                            IF j = i THEN c ELSE ctor_args[j]]
        /\ UNCHANGED <<last, kept, profile>>

\* the call `op(args)` on instance i ran to its return or its raise, leaving
\* frame f with the caller
Called(i, op, args, f) ==
    /\ last = NoCall
    /\ calcs' = [calcs EXCEPT ![i] = f.self]
    /\ last' = [inst |-> i, op |-> op, args |-> args, raised |-> f.raised,
                x |-> f.x, result |-> f.result, results |-> f.results]
    /\ UNCHANGED <<ctor_args, kept, profile>>

CallParallel(I, E, S, A, R) ==
    \E i \in I \cap DOMAIN calcs, e \in E, s \in S, a \in A, r \in R :
        Called(i, "parallel",
               [effect_size |-> e, std_dev |-> s, number_of_arms |-> a,
                allocation_ratio |-> r],
               calculate_parallel_design(calcs[i], e, s, a, r))

CallCrossover(I, E, S, K) ==
    \E i \in I \cap DOMAIN calcs, e \in E, s \in S, c \in K :
        Called(i, "crossover",
               [effect_size |-> e, std_dev |-> s, correlation |-> c],
               calculate_crossover_design(calcs[i], e, s, c))

CallBioequivalence(I, V, M, D) ==
    \E i \in I \cap DOMAIN calcs, v \in V, m \in M, d \in D :
        Called(i, "bioequivalence",
               [cv |-> v, bioequivalence_margin |-> m, design |-> d],
               calculate_bioequivalence(calcs[i], v, m, d))

CallSensitivity(I, L, S, D) ==
    \E i \in I \cap DOMAIN calcs, l \in L, s \in S, d \in D :
        Called(i, "sensitivity",
               [effect_sizes |-> l, std_dev |-> s, design |-> d],
               sensitivity_analysis(calcs[i], l, s, d))

\* the caller takes what the call left and goes on; with `keep` it may hold on
\* to it (as main does with sample_size_result) while later calls run
CallerContinues(keep) ==
    /\ last # NoCall
    /\ last' = NoCall
    /\ kept' \in (IF keep THEN {kept, last} ELSE {kept})
    /\ UNCHANGED <<calcs, ctor_args, profile>>

SweepLists == SeqsUpTo({<<0, 1>>, <<1, 1>>, <<2, 1>>}, MaxSweepLen)

\* one calculator, every configuration and every input, valid or not
Next ==
    \/ get_sample_size_calculator({1}, Configs)
    \/ CallParallel({1}, ValidEffects \cup BadMagnitudes,
                    ValidStdDevs \cup BadMagnitudes, ArmCounts, Ratios)
    \/ CallCrossover({1}, ValidEffects \cup BadMagnitudes,
                     ValidStdDevs \cup BadMagnitudes, Correlations)
    \/ CallParallel({1}, ScenarioEffects, ScenarioStdDevs, ArmCounts, Ratios)
    \/ CallCrossover({1}, ScenarioEffects, ScenarioStdDevs,
                     Correlations \cup ScenarioCorrelations)
    \/ CallBioequivalence({1}, ValidCVs \cup BadMagnitudes, Margins, Designs)
    \/ CallSensitivity({1}, SweepLists, ValidStdDevs, Designs)
    \/ CallerContinues(FALSE)

Spec == Init /\ [][Next]_vars

\* one calculator with a valid configuration and valid inputs; the caller may
\* keep an earlier result while it makes further calls
ValidSweepLists == SeqsUpTo({<<1, 1>>, <<2, 1>>}, MaxSweepLen)

PairConfigs ==
    {Config(a, <<4, 5>>, d) : a \in {<<1, 20>>, <<1, 10>>}, d \in {<<0, 1>>, <<3, 20>>}}

NextPair ==
    \/ get_sample_size_calculator({1}, PairConfigs)
    \/ CallParallel({1}, ValidEffects, ValidStdDevs, ArmCounts, Ratios)
    \/ CallCrossover({1}, ValidEffects, ValidStdDevs, Correlations)
    \/ CallBioequivalence({1}, ValidCVs, {<<1, 5>>}, {"crossover", "parallel"})
    \/ CallSensitivity({1}, ValidSweepLists, {<<2, 1>>}, {"parallel", "crossover"})
    \/ CallerContinues(TRUE)

SpecPair == Init /\ [][NextPair]_vars

\* two calculators, built one after the other with any two configurations,
\* their calls interleaved in every order
TwoConfigs ==
    {DefaultConfig, Config(<<1, 10>>, <<9, 10>>, <<0, 1>>),
     Config(<<1, 20>>, <<4, 5>>, <<1, 2>>), Config(<<1, 20>>, <<4, 5>>, <<3, 2>>)}

NextTwo ==
    \/ get_sample_size_calculator({1, 2}, TwoConfigs)
    \/ CallParallel({1, 2}, {<<1, 1>>, <<2, 1>>}, {<<2, 1>>}, {2}, {<<1, 1>>})
    \/ CallCrossover({1, 2}, {<<1, 1>>, <<2, 1>>}, {<<2, 1>>}, {<<1, 2>>})
    \/ CallBioequivalence({1, 2}, {<<3, 20>>}, {<<1, 5>>}, {"crossover", "parallel"})
    \/ CallSensitivity({1, 2}, {<<<<1, 1>>, <<2, 1>>>>}, {<<2, 1>>}, {"parallel"})
    \/ CallerContinues(TRUE)

SpecTwo == Init /\ [][NextTwo]_vars

\* ------------------------------------------------- the design selector run

\* half-lives in hours: the 1.0 and 8.5 of src/pk_data/source_pubmed.py, the
\* threshold 24 and values above it
HalfLives == {<<1, 1>>, <<17, 2>>, <<24, 1>>, <<49, 2>>, <<48, 1>>}

ProfileParameters ==
    {PKParameter("AUC", <<1850, 1>>)} \cup {PKParameter("t1/2", v) : v \in HalfLives}

\* no profile, or a profile of up to MaxProfileLen parameters in any order,
\* names repeated or not (add_parameter appends without looking)
Profiles ==
    {Absent} \cup {Some(PKProfile(ps)) : ps \in SeqsUpTo(ProfileParameters, MaxProfileLen)}

TreatmentCounts == 1..5

DurationConstraints == {Absent, Some(0), Some(28), Some(55), Some(56), Some(60)}

DesignTypes == {"parallel", "crossover", "factorial", "adaptive", "sequential"}

\* the StudyDesign records a caller may build by hand
BuiltDesigns ==
    {StudyDesign(t, a, 28, w) : t \in DesignTypes, a \in 0..4,
                                w \in {Absent, Some(0), Some(7)}}

\* design_selector.recommend_design(drug, pk_profile, number_of_treatments,
\* study_duration_constraint) returned
RecommendDesign(P, T, D) ==
    /\ last = NoCall
    /\ \E pk_profile \in P, number_of_treatments \in T, study_duration_constraint \in D :
           last' = [inst |-> 0, op |-> "recommend_design",
                    args |-> [pk_profile |-> pk_profile,
                              number_of_treatments |-> number_of_treatments,
                              study_duration_constraint |-> study_duration_constraint],
                    raised |-> "none", x |-> NaN,
                    result |-> recommend_design(pk_profile, number_of_treatments,
                                                study_duration_constraint),
                    results |-> <<>>]
    /\ UNCHANGED <<calcs, ctor_args, kept, profile>>

\* the frame validate_design(design) leaves
ValidateCall(design) ==
    [inst |-> 0, op |-> "validate_design", args |-> [design |-> design],
     raised |-> "none", x |-> NaN, result |-> validate_design(design),
     results |-> <<>>]

\* design_selector.validate_design(design) on a design built by the caller
ValidateDesign(D) ==
    /\ last = NoCall
    /\ \E design \in D : last' = ValidateCall(design)
    /\ UNCHANGED <<calcs, ctor_args, kept, profile>>

\* the frame check_study_compliance(study) leaves
CheckCall(study) ==
    [inst |-> 0, op |-> "check_study_compliance", args |-> [study |-> study],
     raised |-> "none", x |-> NaN,
     result |-> [violations |-> check_study_compliance(study)],
     results |-> <<>>]

\* the caller is done with what it held
CallerReturns ==
    /\ last # NoCall
    /\ last' = NoCall
    /\ kept' = NoCall
    /\ UNCHANGED <<calcs, ctor_args, profile>>

\* main, lines 69-83: the design just recommended is handed to validate_design
ValidateRecommended ==
    /\ last # NoCall /\ last.op = "recommend_design"
    /\ last' = ValidateCall(last.result)
    /\ kept' = last
    /\ UNCHANGED <<calcs, ctor_args, profile>>

\* main, lines 184-205: the design just recommended becomes the design of the
\* study handed to check_study_compliance
CheckRecommended ==
    /\ last # NoCall /\ last.op = "recommend_design"
    /\ last' = CheckCall(ClinicalStudy("ONCO-X-2024-001",
                    "A Phase II Study of Onco-Therapy X in Patients with Advanced NSCLC",
                    last.args.pk_profile, Some(last.result), Absent,
                    <<Endpoint("ORR", "primary")>>, Some(104)))
    /\ kept' = last
    /\ UNCHANGED <<calcs, ctor_args, profile>>

NextDesign ==
    \/ RecommendDesign(Profiles, TreatmentCounts, DurationConstraints)
    \/ ValidateRecommended
    \/ CheckRecommended
    \/ ValidateDesign(BuiltDesigns)
    \/ CallerReturns

SpecDesign == Init /\ [][NextDesign]_vars

\* ------------------------------------------------- the study being checked

EndpointTypes == {"primary", "secondary", "exploratory"}

EndpointLists ==
    SeqsUpTo({Endpoint("ORR", t) : t \in EndpointTypes}, MaxEndpoints)

\* study identifiers and titles: empty, too short, and those of main
StudyIds == {"", "X-1", "ONCO-X-2024-001"}
Titles == {"", "A Phase II Study of Onco-Therapy X in Patients with Advanced NSCLC"}

\* no design, or one as the endpoints of src/api/main.py and main build it
StudyDesigns ==
    {Absent, Some(StudyDesign("parallel", 2, 28, Absent)),
     Some(StudyDesign("crossover", 2, 28, Absent)),
     Some(StudyDesign("crossover", 2, 56, Some(1)))}

SampleSizes == {Absent, Some(0), Some(9), Some(10), Some(104)}

CheckedStudies ==
    {ClinicalStudy(i, t, Absent, d, Absent, e, n) :
        i \in StudyIds, t \in Titles, d \in StudyDesigns, e \in EndpointLists,
        n \in SampleSizes}

\* checker.check_study_compliance(study) on a study the caller assembled
CheckStudy(S) ==
    /\ last = NoCall
    /\ \E study \in S : last' = CheckCall(study)
    /\ UNCHANGED <<calcs, ctor_args, kept, profile>>

\* main, line 192: sample_size_result.get('adjusted_total_n') or
\* sample_size_result.get('adjusted_n_subjects'); a total of 0 is falsy
SampleSizeOf(sample_size_result) ==
    IF sample_size_result.design = "parallel"
    THEN (IF sample_size_result.adjusted_total_n # 0
          THEN Some(sample_size_result.adjusted_total_n)
          ELSE Absent)
    ELSE Some(sample_size_result.adjusted_n_subjects)

\* main, lines 184-205: the study is assembled around the sample-size result
\* just calculated and handed to the checker
CheckCalculated(E) ==
    /\ last # NoCall /\ last.op \in {"parallel", "crossover"} /\ last.raised = "none"
    /\ \E e \in E :
           last' = CheckCall(ClinicalStudy("ONCO-X-2024-001",
                       "A Phase II Study of Onco-Therapy X in Patients with Advanced NSCLC",
                       Absent, Absent, Absent, e, SampleSizeOf(last.result)))
    /\ kept' = last
    /\ UNCHANGED <<calcs, ctor_args, profile>>

\* the studies handed to the synopsis generator: every optional field
\* present or absent
SynopsisStudies ==
    {ClinicalStudy("ONCO-X-2024-001",
                   "A Phase II Study of Onco-Therapy X in Patients with Advanced NSCLC",
                   k, d, p, e, n) :
        k \in {Absent, Some(PKProfile(<<>>))},
        d \in StudyDesigns,
        p \in {Absent,
               Some(StudyPopulation("Stage IIIB or IV NSCLC", "", <<"ECOG 0-1">>, <<>>))},
        e \in {<<>>, <<Endpoint("ORR", "primary")>>,
               <<Endpoint("ORR", "primary"), Endpoint("PFS", "secondary")>>},
        n \in {Absent, Some(104)}}

\* no sample-size result, or the result of scenario 1 or scenario 2
SynopsisResults ==
    {Absent,
     Some(calculate_parallel_design(DefaultConfig, <<300, 1>>, <<500, 1>>, 2,
                                    <<1, 1>>).result),
     Some(calculate_crossover_design(DefaultConfig, <<300, 1>>, <<500, 1>>,
                                     <<3, 5>>).result)}

\* generator.generate_section(section_name, study, sample_size_result)
GenerateSection(N, S, R) ==
    /\ last = NoCall
    /\ \E section_name \in N, study \in S, sample_size_result \in R :
           LET f == generate_section(section_name, study, sample_size_result)
           IN last' = [inst |-> 0, op |-> "generate_section",
                       args |-> [section_name |-> section_name, study |-> study,
                                 sample_size_result |-> sample_size_result],
                       raised |-> f.raised, x |-> NaN,
                       result |-> [text |-> f.text], results |-> <<>>]
    /\ UNCHANGED <<calcs, ctor_args, kept, profile>>

\* generator.generate_full_synopsis(study, sample_size_result)
GenerateFullSynopsis(S, R) ==
    /\ last = NoCall
    /\ \E study \in S, sample_size_result \in R :
           LET f == generate_full_synopsis(study, sample_size_result)
           IN last' = [inst |-> 0, op |-> "generate_full_synopsis",
                       args |-> [section_name |-> "all", study |-> study,
                                 sample_size_result |-> sample_size_result],
                       raised |-> f.raised, x |-> NaN,
                       result |-> [text |-> f.text], results |-> <<>>]
    /\ UNCHANGED <<calcs, ctor_args, kept, profile>>

NextStudy ==
    \/ get_sample_size_calculator({1}, PairConfigs)
    \/ CallParallel({1}, ValidEffects, ValidStdDevs, ArmCounts, {<<1, 1>>})
    \/ CallParallel({1}, ScenarioEffects, ScenarioStdDevs, ArmCounts, {<<1, 1>>})
    \/ CallCrossover({1}, ValidEffects, ValidStdDevs, Correlations)
    \/ CallCrossover({1}, ScenarioEffects, ScenarioStdDevs, ScenarioCorrelations)
    \/ CheckStudy(CheckedStudies)
    \/ CheckCalculated({<<Endpoint("ORR", "primary")>>})
    \/ GenerateSection(SectionNames \cup {"appendix"}, SynopsisStudies, SynopsisResults)
    \/ GenerateFullSynopsis(SynopsisStudies, SynopsisResults)
    \/ CallerReturns

SpecStudy == Init /\ [][NextStudy]_vars

\* ---------------------------------------------------------------- API run

SampleSizeRequests ==
    {SampleSizeRequest(t, e, d, a, v) :
        t \in {"parallel", "crossover", "bioequivalence", "factorial", ""},
        e \in ValidEffects \cup {<<0, 1>>}, d \in ValidStdDevs, a \in ArmCounts,
        v \in {Absent, Some(<<0, 1>>), Some(<<3, 20>>)}}

StudyRequests ==
    {StudyRequest(i, t, d, e) :
        i \in StudyIds, t \in Titles,
        d \in {Absent, Some("")} \cup {Some(k) : k \in DesignTypes},
        e \in {Absent} \cup {Some(l) : l \in SeqsUpTo({Endpoint("ORR", "primary")}, 1)}}

\* the frame a request to a route leaves: the handler's response
ApiCall(op, request, response) ==
    [inst |-> 0, op |-> op, args |-> [request |-> request],
     raised |-> IF response.status_code = 200 THEN "none" ELSE "HTTPException",
     x |-> NaN, result |-> response, results |-> <<>>]

\* POST /sample-size/calculate
PostSampleSizeCalculate(P) ==
    /\ last = NoCall
    /\ \E params \in P :
           last' = ApiCall("calculate_sample_size", params, calculate_sample_size(params))
    /\ UNCHANGED <<calcs, ctor_args, kept, profile>>

\* POST /regulatory/check
PostRegulatoryCheck(Q) ==
    /\ last = NoCall
    /\ \E study_request \in Q :
           last' = ApiCall("check_regulatory_compliance", study_request,
                           check_regulatory_compliance(study_request))
    /\ UNCHANGED <<calcs, ctor_args, kept, profile>>

NextApi ==
    \/ PostSampleSizeCalculate(SampleSizeRequests)
    \/ PostRegulatoryCheck(StudyRequests)
    \/ CallerReturns

SpecApi == Init /\ [][NextApi]_vars

\* ------------------------------------------------------------ profile run

\* the names a caller asks for; "Cmax" is never among the parameters added
ParameterNames == {"AUC", "t1/2", "Cmax"}

\* profile.add_parameter(parameter), as search_pk_data and get_pk_parameters
\* fill the profile they return; `self` in the frame is the profile before
AddParameter(P) ==
    /\ last = NoCall
    /\ Len(profile.parameters) < MaxProfileLen
    /\ \E parameter \in P :
           /\ profile' = add_parameter(profile, parameter)
           /\ last' = [inst |-> 0, op |-> "add_parameter",
                       args |-> [self |-> profile, parameter |-> parameter],
                       raised |-> "none", x |-> NaN, result |-> NoResult,
                       results |-> <<>>]
    /\ UNCHANGED <<calcs, ctor_args, kept>>

\* profile.get_parameter(parameter_name)
GetParameter(N) ==
    /\ last = NoCall
    /\ \E parameter_name \in N :
           last' = [inst |-> 0, op |-> "get_parameter",
                    args |-> [self |-> profile, parameter_name |-> parameter_name],
                    raised |-> "none", x |-> NaN,
                    result |-> [parameter |-> get_parameter(profile, parameter_name)],
                    results |-> <<>>]
    /\ UNCHANGED <<calcs, ctor_args, kept, profile>>

NextProfile ==
    \/ AddParameter(ProfileParameters)
    \/ GetParameter(ParameterNames)
    \/ CallerReturns

SpecProfile == Init /\ [][NextProfile]_vars

\* ---------------------------------------------------------------- claims

Returned == last # NoCall /\ last.raised = "none"

\* the latest call was given a non-positive effect_size, std_dev or cv
NonPositiveInput ==
    \/ /\ last.op \in {"parallel", "crossover"}
       /\ ~IsPositive(last.args.effect_size) \/ ~IsPositive(last.args.std_dev)
    \/ /\ last.op = "bioequivalence"
       /\ ~IsPositive(last.args.cv)

\* the latest call was given inputs inside their documented domains
ValidInput ==
    \/ /\ last.op \in {"parallel", "crossover"}
       /\ IsPositive(last.args.effect_size) /\ IsPositive(last.args.std_dev)
    \/ /\ last.op = "bioequivalence"
       /\ IsPositive(last.args.cv)
       /\ last.args.design \in {"crossover", "parallel"}
    \/ /\ last.op = "sensitivity"
       /\ \A k \in DOMAIN last.args.effect_sizes : IsPositive(last.args.effect_sizes[k])
       /\ last.args.design \in {"crossover", "parallel"}

ValidCall == last # NoCall /\ IsValidConfig(ctor_args[last.inst]) /\ ValidInput

\* C1: a calculation given a non-positive effect_size, std_dev or cv fails with
\* a dedicated validation error and returns no result (no count is computed).
C1_NonPositiveInputRaisesValidationError ==
    (last # NoCall /\ IsValidConfig(ctor_args[last.inst]) /\ NonPositiveInput)
        => last.raised = "ValidationError" /\ last.result = NoResult

\* C2: a calculator configured with dropout_rate >= 1, or with alpha or power
\* outside (0,1), fails with a dedicated configuration or validation error at
\* construction or at its first calculation; it neither divides by
\* 1 - dropout_rate <= 0 nor returns a result.
C2_InvalidConfigRaisesDedicatedError ==
    (last # NoCall /\ ~IsValidConfig(ctor_args[last.inst]) /\ ValidInput)
        => /\ last.raised \in {"ValidationError", "ConfigurationError"}
           /\ last.result = NoResult

\* every count of result record r is an integer >= 1, and the per-group figures
\* of the parallel bioequivalence variant cover half the real requirement x
CountsPositiveRoundedUp(r, x) ==
    CASE r.design = "parallel" /\ last.op # "bioequivalence" ->
             /\ r.n_per_group >= 1 /\ r.total_n >= 1
             /\ r.adjusted_n_per_group >= 1 /\ r.adjusted_total_n >= 1
      [] r.design = "crossover" ->
             r.n_subjects >= 1 /\ r.adjusted_n_subjects >= 1
      [] r.design = "parallel" /\ last.op = "bioequivalence" ->
             /\ r.n_per_group >= 1 /\ r.adjusted_n_per_group >= 1
             /\ r.n_subjects >= 1 /\ r.adjusted_n_subjects >= 1
             /\ FGe(FromInt(2 * r.n_per_group), x)

\* C3: for valid inputs every subject or group count of the result is an
\* integer >= 1 obtained by rounding up, the per-group figures of the parallel
\* bioequivalence variant included.
C3_CountsPositiveRoundedUp ==
    (ValidCall /\ Returned) =>
        /\ last.op # "sensitivity" => CountsPositiveRoundedUp(last.result, last.x)
        /\ \A k \in DOMAIN last.results : CountsPositiveRoundedUp(last.results[k], NaN)

IsCeilOf(n, x) == n * x[2] >= x[1] /\ (n - 1) * x[2] < x[1]

\* adj is the smallest integer >= raw / (1 - d), for a rate d in [0,1)
DropoutLaw(raw, adj, d) ==
    /\ adj * (d[2] - d[1]) >= raw * d[2]
    /\ (adj - 1) * (d[2] - d[1]) < raw * d[2]

\* the dropout law on the counts result record r reports, for every design
\* but the parallel bioequivalence variant
DropoutLawOnReported(r) ==
    CASE r.design = "crossover" ->
             DropoutLaw(r.n_subjects, r.adjusted_n_subjects, r.dropout_rate)
      [] r.design = "parallel" ->
             DropoutLaw(r.n_per_group, r.adjusted_n_per_group, r.dropout_rate)

\* with no dropout every adjusted count is the raw count
NoDropoutNoChange(r) ==
    r.dropout_rate = <<0, 1>> =>
        CASE r.design = "crossover" -> r.adjusted_n_subjects = r.n_subjects
          [] r.design = "parallel" -> r.adjusted_n_per_group = r.n_per_group

\* C5 as stated: in every calculation, the parallel bioequivalence variant
\* included, each reported adjusted count is ceil(reported raw count /
\* (1 - dropout_rate)), and equals the raw count when dropout_rate = 0.
C5_DropoutLawEveryDesign ==
    (ValidCall /\ Returned) =>
        /\ last.op # "sensitivity" =>
               DropoutLawOnReported(last.result) /\ NoDropoutNoChange(last.result)
        /\ \A k \in DOMAIN last.results :
               DropoutLawOnReported(last.results[k]) /\ NoDropoutNoChange(last.results[k])

\* C5 amended: the law holds between the reported counts of the parallel,
\* crossover and crossover-bioequivalence calculations; in the parallel
\* bioequivalence variant it holds between the rounded combined count
\* N = ceil(x) and its inflation A, of which the result reports the floor
\* halves N \div 2 and A \div 2; with dropout_rate = 0 adjusted = raw everywhere.
C5_DropoutLawBeforeHalving ==
    (ValidCall /\ Returned) =>
        /\ (last.op \in {"parallel", "crossover"}
            \/ (last.op = "bioequivalence" /\ last.args.design = "crossover")) =>
               DropoutLawOnReported(last.result)
        /\ (last.op = "bioequivalence" /\ last.args.design = "parallel") =>
               \E N \in {2 * last.result.n_per_group, 2 * last.result.n_per_group + 1},
                  A \in {2 * last.result.adjusted_n_per_group,
                         2 * last.result.adjusted_n_per_group + 1} :
                   /\ IsCeilOf(N, last.x)
                   /\ DropoutLaw(N, A, last.result.dropout_rate)
        /\ last.op # "sensitivity" => NoDropoutNoChange(last.result)
        /\ \A k \in DOMAIN last.results :
               DropoutLawOnReported(last.results[k]) /\ NoDropoutNoChange(last.results[k])

\* a parallel bioequivalence result under dropout whose adjusted per-group
\* figure is not the inflation of its raw per-group figure
C5_Witness ==
    /\ ValidCall /\ Returned
    /\ last.op = "bioequivalence" /\ last.args.design = "parallel"
    /\ last.result.dropout_rate # <<0, 1>>
    /\ last.result.adjusted_n_per_group > last.result.n_per_group
    /\ ~DropoutLaw(last.result.n_per_group, last.result.adjusted_n_per_group,
                   last.result.dropout_rate)

\* the raw count the latest call reports from its real-valued x
RawCount ==
    IF last.op = "parallel" THEN last.result.n_per_group ELSE last.result.n_subjects

\* C6: in the parallel, crossover and crossover-bioequivalence calculations the
\* reported raw count is the smallest integer >= the real-valued formula
\* output x: x itself when x is an integer, the next integer otherwise.
C6_CeilingLaw ==
    (Returned /\ (last.op \in {"parallel", "crossover"}
                  \/ (last.op = "bioequivalence" /\ last.args.design = "crossover"))) =>
        /\ IsCeilOf(RawCount, last.x)
        /\ last.x[2] = 1 => RawCount = last.x[1]
        /\ last.x[2] # 1 => RawCount = FloorOf(last.x) + 1

\* a calculation whose x is an integer, reported as it is
C6_Witness ==
    /\ Returned /\ last.op = "crossover"
    /\ last.x[2] = 1
    /\ last.result.n_subjects = last.x[1]

\* the raw required count call c reports
RawOf(c) == IF c.op = "parallel" THEN c.result.n_per_group ELSE c.result.n_subjects

BothReturned ==
    /\ kept # NoCall /\ last # NoCall
    /\ kept.raised = "none" /\ last.raised = "none"

\* calls a and b are the same calculation on the same calculator with every
\* parameter but effect_size equal
SameButEffect(a, b) ==
    /\ a.inst = b.inst /\ a.op = b.op /\ a.op \in {"parallel", "crossover"}
    /\ [a.args EXCEPT !.effect_size = b.args.effect_size] = b.args

\* C7: in the parallel and crossover calculations, every other parameter held
\* fixed, e1 <= e2 implies n(e1) >= n(e2) for the raw required count.
C7_EffectSizeMonotone ==
    /\ (BothReturned /\ SameButEffect(kept, last)) =>
           /\ FGe(last.args.effect_size, kept.args.effect_size)
                  => RawOf(kept) >= RawOf(last)
           /\ FGe(kept.args.effect_size, last.args.effect_size)
                  => RawOf(last) >= RawOf(kept)
    /\ (Returned /\ last.op = "sensitivity") =>
           \A j, k \in DOMAIN last.results :
               FGe(last.args.effect_sizes[k], last.args.effect_sizes[j]) =>
                   IF last.args.design = "parallel"
                   THEN last.results[j].n_per_group >= last.results[k].n_per_group
                   ELSE last.results[j].n_subjects >= last.results[k].n_subjects

\* two unequally allocated parallel calculations differing in effect_size
\* only, the smaller effect needing strictly more subjects per group
C7_Witness ==
    /\ BothReturned /\ SameButEffect(kept, last)
    /\ last.op = "parallel" /\ last.args.allocation_ratio # <<1, 1>>
    /\ FGt(last.args.effect_size, kept.args.effect_size)
    /\ RawOf(kept) > RawOf(last)

\* calls a and b are crossover calculations on the same calculator with the
\* same effect_size and std_dev
SameButCorrelation(a, b) ==
    /\ a.inst = b.inst /\ a.op = "crossover" /\ b.op = "crossover"
    /\ a.args.effect_size = b.args.effect_size
    /\ a.args.std_dev = b.args.std_dev

\* C8: in the crossover calculation with effect_size and std_dev fixed,
\* c1 <= c2 in [0,1) implies n_subjects(c1) >= n_subjects(c2).
C8_CorrelationMonotone ==
    (BothReturned /\ SameButCorrelation(kept, last)) =>
        /\ FGe(last.args.correlation, kept.args.correlation)
               => kept.result.n_subjects >= last.result.n_subjects
        /\ FGe(kept.args.correlation, last.args.correlation)
               => last.result.n_subjects >= kept.result.n_subjects

\* two crossover calculations differing in correlation only, the larger
\* correlation needing strictly fewer subjects
C8_Witness ==
    /\ BothReturned /\ SameButCorrelation(kept, last)
    /\ FGt(last.args.correlation, kept.args.correlation)
    /\ kept.result.n_subjects > last.result.n_subjects

\* every calculator holds the attributes its constructor was given
ConfigUnchanged == \A i \in DOMAIN calcs : calcs[i] = ctor_args[i]

SameCall(a, b) == a.inst = b.inst /\ a.op = b.op /\ a.args = b.args

\* C9: after any sequence of calculations a calculator's alpha, power and
\* dropout_rate are those of its construction, and a calculation repeated with
\* identical inputs gives the identical outcome whatever ran in between.
C9_ConfigFrameAndIdempotence ==
    /\ ConfigUnchanged
    /\ (kept # NoCall /\ last # NoCall /\ SameCall(kept, last)) =>
           /\ kept.raised = last.raised
           /\ kept.x = last.x
           /\ kept.result = last.result
           /\ kept.results = last.results

\* a calculation repeated, with dropout in force, after the first result was
\* kept and the calculator used again
C9_Witness ==
    /\ kept # NoCall /\ last # NoCall /\ SameCall(kept, last)
    /\ kept.op = "parallel" /\ kept.raised = "none"
    /\ calcs[1].dropout_rate # <<0, 1>>
    /\ last.result.adjusted_n_per_group > last.result.n_per_group

\* the frame `op(args)` leaves on a calculator holding configuration c and
\* nothing else
RunAlone(c, op, args) ==
    CASE op = "parallel" ->
             calculate_parallel_design(c, args.effect_size, args.std_dev,
                                       args.number_of_arms, args.allocation_ratio)
      [] op = "crossover" ->
             calculate_crossover_design(c, args.effect_size, args.std_dev,
                                        args.correlation)
      [] op = "bioequivalence" ->
             calculate_bioequivalence(c, args.cv, args.bioequivalence_margin,
                                      args.design)
      [] op = "sensitivity" ->
             sensitivity_analysis(c, args.effect_sizes, args.std_dev, args.design)

\* call c left what it would have left running alone on its own instance
Isolated(c) ==
    c # NoCall =>
        LET f == RunAlone(ctor_args[c.inst], c.op, c.args)
        IN c.raised = f.raised /\ c.result = f.result /\ c.results = f.results

\* C10: with two calculators of different configurations used in any
\* interleaving, every calculation gives the result it would give alone on its
\* own instance, and no calculation changes the other instance's configuration.
C10_InstancesIsolated ==
    /\ Isolated(last) /\ Isolated(kept)
    /\ ConfigUnchanged

\* both calculators built with different configurations, the same calculation
\* made on the second and then on the first, with different results
C10_Witness ==
    /\ DOMAIN calcs = {1, 2} /\ ctor_args[1] # ctor_args[2]
    /\ BothReturned
    /\ kept.inst = 2 /\ last.inst = 1
    /\ kept.op = last.op /\ kept.args = last.args
    /\ kept.op = "crossover"
    /\ kept.result.adjusted_n_subjects # last.result.adjusted_n_subjects

\* the frame of the single calculation sensitivity_analysis stands for at
\* position k of sweep c: the k-th effect size, the given std_dev, every other
\* parameter at its default
SingleCall(c, k) ==
    IF c.args.design = "parallel"
    THEN calculate_parallel_design(ctor_args[c.inst], c.args.effect_sizes[k],
                                   c.args.std_dev, 2, <<1, 1>>)
    ELSE calculate_crossover_design(ctor_args[c.inst], c.args.effect_sizes[k],
                                    c.args.std_dev, <<1, 2>>)

\* C11: sensitivity_analysis over k valid effect sizes with design parallel or
\* crossover returns exactly k results in input order, the i-th equal to the
\* result of the single parallel (resp. crossover) calculation with the i-th
\* effect size, the given std_dev and default remaining parameters.
C11_SweepIsPointwise ==
    (ValidCall /\ last.op = "sensitivity") =>
        /\ last.raised = "none"
        /\ Len(last.results) = Len(last.args.effect_sizes)
        /\ \A k \in DOMAIN last.args.effect_sizes :
               /\ SingleCall(last, k).raised = "none"
               /\ last.results[k] = SingleCall(last, k).result

\* a crossover sweep over two different effect sizes, the results in the order
\* of the inputs and different from each other
C11_Witness ==
    /\ ValidCall /\ Returned /\ last.op = "sensitivity"
    /\ last.args.design = "crossover"
    /\ Len(last.args.effect_sizes) = 2
    /\ FGt(last.args.effect_sizes[2], last.args.effect_sizes[1])
    /\ last.results[1].effect_size = last.args.effect_sizes[1]
    /\ last.results[1].n_subjects > last.results[2].n_subjects

\* C12: calculate_bioequivalence called with a design tag other than
\* "crossover" or "parallel" fails with a validation error before any
\* computation and returns no result.
C12_UnsupportedDesignTagRaises ==
    (/\ last # NoCall /\ IsValidConfig(ctor_args[last.inst])
     /\ last.op = "bioequivalence" /\ IsPositive(last.args.cv)
     /\ last.args.design \notin {"crossover", "parallel"})
        => last.raised = "ValidationError" /\ last.result = NoResult

\* the equal-allocation real-valued per-group requirement of parallel call c
EqualAllocationN(c) ==
    FDiv(FMul(FMul(TwoSidedFactor(ctor_args[c.inst]), <<2, 1>>),
              FSquare(c.args.std_dev)),
         FSquare(c.args.effect_size))

\* C13: in calculate_parallel_design with allocation_ratio r # 1 the reported
\* n_per_group is ceil(max(n * r/(1+r), n/(1+r))), n being the equal-allocation
\* real-valued requirement, and both real-valued arm sizes are at most the
\* reported figure; with r = 1 the reported n_per_group is ceil(n).
C13_AllocationConservative ==
    (ValidCall /\ Returned /\ last.op = "parallel") =>
        LET r == last.args.allocation_ratio
            n == EqualAllocationN(last)
            n1 == FDiv(FMul(n, r), FAdd(<<1, 1>>, r))
            n2 == FDiv(n, FAdd(<<1, 1>>, r))
            larger == IF FGe(n1, n2) THEN n1 ELSE n2
            reported == last.result.n_per_group
        IN /\ r # <<1, 1>> =>
                  /\ IsCeilOf(reported, larger)
                  /\ FGe(FromInt(reported), n1)
                  /\ FGe(FromInt(reported), n2)
           /\ r = <<1, 1>> => IsCeilOf(reported, n)

\* an unequally allocated calculation (r = 2) whose reported figure covers the
\* larger arm and is below the rounded equal-allocation requirement
C13_Witness ==
    /\ ValidCall /\ Returned /\ last.op = "parallel"
    /\ last.args.allocation_ratio = <<2, 1>>
    /\ FGe(FromInt(last.result.n_per_group),
           FDiv(FMul(EqualAllocationN(last), <<2, 1>>), <<3, 1>>))
    /\ FGt(EqualAllocationN(last), FromInt(last.result.n_per_group))

\* C14: for bioequivalence with real-valued output n the crossover variant
\* reports n_subjects = ceil(n) and adjusted_n_subjects =
\* ceil(ceil(n) / (1 - dropout_rate)) with both per-group fields null; the
\* parallel variant, whose n is twice the crossover n, reports n_per_group =
\* floor(ceil(n) / 2) and adjusted_n_per_group =
\* floor(ceil(ceil(n) / (1 - dropout_rate)) / 2), n_subjects and
\* adjusted_n_subjects carrying the same halved values.
C14_BioequivalenceReporting ==
    (ValidCall /\ Returned /\ last.op = "bioequivalence") =>
        LET c == ctor_args[last.inst]
            r == last.result
            N == math_ceil(last.x)
            A == math_ceil(FDiv(FromInt(N), FSub(<<1, 1>>, c.dropout_rate)))
        IN /\ IsCeilOf(N, last.x)
           /\ DropoutLaw(N, A, c.dropout_rate)
           /\ last.args.design = "crossover" =>
                  /\ r.n_subjects = N /\ r.adjusted_n_subjects = A
                  /\ r.n_per_group = None /\ r.adjusted_n_per_group = None
           /\ last.args.design = "parallel" =>
                  /\ r.n_per_group = N \div 2 /\ r.adjusted_n_per_group = A \div 2
                  /\ r.n_subjects = N \div 2 /\ r.adjusted_n_subjects = A \div 2
                  /\ last.x = FMul(<<2, 1>>,
                                   BioequivalenceRealN(c, last.args.cv,
                                                       last.args.bioequivalence_margin,
                                                       "crossover"))

\* a parallel bioequivalence result with an odd rounded count under dropout:
\* the halves reported differ from half-then-inflate
C14_Witness ==
    /\ ValidCall /\ Returned
    /\ last.op = "bioequivalence" /\ last.args.design = "parallel"
    /\ math_ceil(last.x) % 2 = 1
    /\ last.result.dropout_rate # <<0, 1>>
    /\ last.result.adjusted_n_per_group #
           DropoutAdjust(ctor_args[last.inst], last.result.n_per_group)

\* the latest call is operation op with arguments args on a calculator built
\* with alpha = 0.05, power = 0.80, dropout_rate = 0.15
ScenarioCall(op, args) ==
    /\ last # NoCall
    /\ ctor_args[last.inst] = Config(<<1, 20>>, <<4, 5>>, <<3, 20>>)
    /\ last.op = op
    /\ last.args = args

Scenario1 ==
    ScenarioCall("parallel",
                 [effect_size |-> <<300, 1>>, std_dev |-> <<500, 1>>,
                  number_of_arms |-> 2, allocation_ratio |-> <<1, 1>>])

\* C15: with alpha = 0.05, power = 0.80, dropout_rate = 0.15,
\* calculate_parallel_design(300, 500, number_of_arms = 2,
\* allocation_ratio = 1.0) returns n_per_group = 44,
\* adjusted_n_per_group = 52 and adjusted_total_n = 104.
C15_Scenario1 ==
    Scenario1 =>
        /\ last.raised = "none"
        /\ last.result.n_per_group = 44
        /\ last.result.adjusted_n_per_group = 52
        /\ last.result.adjusted_total_n = 104

\* scenario 1 was run and returned, its real-valued requirement between 43
\* and 44
C15_Witness ==
    /\ Scenario1 /\ Returned
    /\ FGt(last.x, <<43, 1>>) /\ FGt(<<44, 1>>, last.x)
    /\ last.result.total_n = 88

Scenario2 ==
    ScenarioCall("crossover",
                 [effect_size |-> <<300, 1>>, std_dev |-> <<500, 1>>,
                  correlation |-> <<3, 5>>])

\* C16: with the same configuration, calculate_crossover_design(300, 500,
\* correlation = 0.6) returns n_subjects = 18 and adjusted_n_subjects = 22.
C16_Scenario2 ==
    Scenario2 =>
        /\ last.raised = "none"
        /\ last.result.n_subjects = 18
        /\ last.result.adjusted_n_subjects = 22

\* scenario 2 was run and returned, its real-valued requirement between 17
\* and 18
C16_Witness ==
    /\ Scenario2 /\ Returned
    /\ FGt(last.x, <<17, 1>>) /\ FGt(<<18, 1>>, last.x)
    /\ last.result.correlation = <<3, 5>>

Scenario3 ==
    ScenarioCall("bioequivalence",
                 [cv |-> <<3, 20>>, bioequivalence_margin |-> <<1, 5>>,
                  design |-> "crossover"])

\* C17: with the same configuration, calculate_bioequivalence(cv = 0.15,
\* bioequivalence_margin = 0.20, design = "crossover") uses the one-sided
\* z_alpha = z(1 - alpha) and returns n_subjects = 9 and
\* adjusted_n_subjects = 11.
C17_Scenario3 ==
    Scenario3 =>
        /\ last.raised = "none"
        /\ last.x = FDiv(FMul(FMul(FSquare(FAdd(norm_ppf(<<19, 20>>),
                                                norm_ppf(<<4, 5>>))),
                                   <<2, 1>>),
                              FSquare(<<3, 20>>)),
                         FSquare(math_log(<<6, 5>>)))
        /\ last.result.n_subjects = 9
        /\ last.result.adjusted_n_subjects = 11

\* scenario 3 was run and returned, its real-valued requirement between 8
\* and 9
C17_Witness ==
    /\ Scenario3 /\ Returned
    /\ FGt(last.x, <<8, 1>>) /\ FGt(<<9, 1>>, last.x)
    /\ last.result.n_per_group = None

\* the latest call is a recommend_design that was handed a PK profile
RecommendedWithProfile ==
    /\ last # NoCall /\ last.op = "recommend_design"
    /\ ~IsAbsent(last.args.pk_profile)

\* the parameters of the profile the latest recommend_design was handed
GivenParameters == ValueOf(last.args.pk_profile).parameters

\* position k holds the first t1/2 parameter of the profile
FirstHalfLifeAt(k) ==
    /\ GivenParameters[k].parameter_name = "t1/2"
    /\ \A j \in 1..(k - 1) : GivenParameters[j].parameter_name # "t1/2"

\* the duration constraint of the latest recommend_design leaves room for the
\* 56 days of a crossover
DurationAllowsCrossover ==
    \/ IsAbsent(last.args.study_duration_constraint)
    \/ ValueOf(last.args.study_duration_constraint) = 0
    \/ ValueOf(last.args.study_duration_constraint) >= 56

\* C18: whenever recommend_design returns a crossover design for a PK profile
\* that contains a t1/2 parameter, the washout_period is
\* ceil(5 * half_life_hours / 24) days, so that any positive half-life gives a
\* washout of at least 1 day.
C18_WashoutIsCeiling ==
    (RecommendedWithProfile /\ last.result.design_type = "crossover") =>
        \A k \in DOMAIN GivenParameters :
            FirstHalfLifeAt(k) =>
                LET half_life == GivenParameters[k].value
                    days == FDiv(FMul(<<5, 1>>, half_life), <<24, 1>>)
                IN /\ ~IsAbsent(last.result.washout_period)
                   /\ IsCeilOf(ValueOf(last.result.washout_period), days)
                   /\ IsPositive(half_life) => ValueOf(last.result.washout_period) >= 1

MinArmsOf(design_type) == IF design_type = "factorial" THEN 4 ELSE 2

KnownDesignTypes == {"parallel", "crossover", "factorial", "adaptive"}

\* C20: validate_design returns is_valid = false exactly when the design type
\* is unknown or number_of_arms is below the minimum of its kind (2 for
\* parallel, crossover and adaptive, 4 for factorial); a crossover design with
\* no washout period gets a warning but stays valid, and a design with no
\* warnings is always valid.
C20_ValidateDesign ==
    (last # NoCall /\ last.op = "validate_design") =>
        LET design == last.args.design
            unknown == design.design_type \notin KnownDesignTypes
            few == ~unknown /\ design.number_of_arms < MinArmsOf(design.design_type)
        IN /\ last.result.is_valid = FALSE <=> (unknown \/ few)
           /\ (design.design_type = "crossover" /\ IsAbsent(design.washout_period)) =>
                  /\ last.result.warnings # <<>>
                  /\ last.result.is_valid <=> design.number_of_arms >= 2
           /\ last.result.warnings = <<>> => last.result.is_valid

\* a two-arm crossover design without washout period was validated: one
\* warning, and the design is valid
C20_Witness ==
    /\ last # NoCall /\ last.op = "validate_design"
    /\ last.args.design.design_type = "crossover"
    /\ last.args.design.number_of_arms = 2
    /\ IsAbsent(last.args.design.washout_period)
    /\ Len(last.result.warnings) = 1
    /\ last.result.is_valid

\* the violations of category c the latest compliance check returned
ViolationsOf(c) ==
    SelectSeq(last.result.violations, LAMBDA v : v.category = c)

Checked == last # NoCall /\ last.op = "check_study_compliance"

\* the number of primary endpoints of the study the latest check was given
PrimaryCount ==
    Cardinality({k \in DOMAIN last.args.study.endpoints :
                    last.args.study.endpoints[k].endpoint_type = "primary"})

\* C21: check_study_compliance reports a critical endpoints violation exactly
\* when the study has no endpoints or none of them is primary, and a minor
\* endpoints violation exactly when more than 2 endpoints are primary (exactly
\* 2 primaries yields none); a single check never returns more than one
\* endpoints violation.
C21_EndpointViolations ==
    Checked =>
        LET vs == ViolationsOf("endpoints")
        IN /\ (\E k \in DOMAIN vs : vs[k].severity = "critical") <=> PrimaryCount = 0
           /\ (\E k \in DOMAIN vs : vs[k].severity = "minor") <=> PrimaryCount > 2
           /\ \A k \in DOMAIN vs : vs[k].severity \in {"critical", "minor"}
           /\ Len(vs) <= 1
           /\ PrimaryCount = 2 => vs = <<>>

\* a study with three primary endpoints was checked: one minor endpoints
\* violation and no critical one
C21_Witness ==
    /\ Checked
    /\ PrimaryCount = 3
    /\ Len(ViolationsOf("endpoints")) = 1
    /\ ViolationsOf("endpoints")[1].severity = "minor"

\* C22: check_study_compliance reports exactly one major sample_size violation
\* when the study's sample_size is absent or below 10 and none when it is 10
\* or more; fed the adjusted total of a valid sample-size calculation that is
\* at least 10, the check raises no sample_size violation.
C22_SampleSizeViolation ==
    Checked =>
        LET vs == ViolationsOf("sample_size")
            n == last.args.study.sample_size
        IN /\ (IsAbsent(n) \/ ValueOf(n) < 10) =>
                  Len(vs) = 1 /\ vs[1].severity = "major"
           /\ (~IsAbsent(n) /\ ValueOf(n) >= 10) => vs = <<>>
           /\ (kept # NoCall /\ kept.op = "parallel"
               /\ kept.result.adjusted_total_n >= 10) => vs = <<>>
           /\ (kept # NoCall /\ kept.op = "crossover"
               /\ kept.result.adjusted_n_subjects >= 10) => vs = <<>>

\* a study assembled around a crossover calculation of exactly 10 adjusted
\* subjects was checked and got no sample_size violation
C22_Witness ==
    /\ Checked
    /\ kept # NoCall /\ kept.op = "crossover"
    /\ kept.result.adjusted_n_subjects = 10
    /\ last.args.study.sample_size = Some(10)
    /\ ViolationsOf("sample_size") = <<>>

\* C23: synopsis rendering never fails because an optional study field
\* (design, population, endpoints, sample_size, pk_profile) or the sample-size
\* result is absent: for every combination of absent optional inputs,
\* generate_full_synopsis and generate_section for each known section name
\* return text.
C23_SynopsisNeverFails ==
    (/\ last # NoCall
     /\ \/ last.op = "generate_full_synopsis"
        \/ last.op = "generate_section" /\ last.args.section_name \in SectionNames)
        => last.raised = "none" /\ last.result.text # <<>>

\* the latest recommend_design was given two treatments and nothing that
\* makes a crossover infeasible: no profile, no t1/2 parameter, or a first
\* t1/2 of at most 24 hours
TwoTreatmentsCrossoverFeasible ==
    /\ last # NoCall /\ last.op = "recommend_design"
    /\ last.args.number_of_treatments = 2
    /\ \/ IsAbsent(last.args.pk_profile)
       \/ \A k \in DOMAIN GivenParameters :
              FirstHalfLifeAt(k) => ~FGt(GivenParameters[k].value, <<24, 1>>)

\* C24: with exactly two treatments and crossover feasible, recommend_design
\* returns parallel for every supplied study_duration_constraint below 56
\* days (0 included) and crossover when the constraint is absent or at least
\* 56 days; the crossover design it returns has treatment_duration 56.
C24_DurationConstraintDecides ==
    TwoTreatmentsCrossoverFeasible =>
        LET c == last.args.study_duration_constraint
        IN /\ (~IsAbsent(c) /\ ValueOf(c) < 56) => last.result.design_type = "parallel"
           /\ (IsAbsent(c) \/ ValueOf(c) >= 56) =>
                  /\ last.result.design_type = "crossover"
                  /\ last.result.treatment_duration = 56

\* the kept call is a recommend_design that returned a crossover design for a
\* profile holding a positive t1/2 parameter
KeptCrossoverForPositiveHalfLife ==
    /\ kept # NoCall /\ kept.op = "recommend_design"
    /\ kept.result.design_type = "crossover"
    /\ ~IsAbsent(kept.args.pk_profile)
    /\ \E k \in DOMAIN ValueOf(kept.args.pk_profile).parameters :
           LET param == ValueOf(kept.args.pk_profile).parameters[k]
           IN param.parameter_name = "t1/2" /\ IsPositive(param.value)

\* C25: every crossover design recommend_design returns for a PK profile
\* containing a positive t1/2 parameter has a washout period the downstream
\* checks accept: validate_design emits no "should specify washout period"
\* warning for it and check_study_compliance emits no "Crossover design
\* missing washout period" violation for a study using it.
C25_RecommendedWashoutAccepted ==
    (KeptCrossoverForPositiveHalfLife /\ last # NoCall) =>
        /\ (last.op = "validate_design" /\ last.args.design = kept.result) =>
               \A k \in DOMAIN last.result.warnings :
                   last.result.warnings[k].text #
                       "Crossover design should specify washout period"
        /\ (last.op = "check_study_compliance"
            /\ last.args.study.design = Some(kept.result)) =>
               \A k \in DOMAIN last.result.violations :
                   last.result.violations[k].description #
                       "Crossover design missing washout period"

\* the request named a design the sample-size route does not serve: neither
\* parallel nor crossover, nor bioequivalence with a non-zero cv
UnsupportedRequest ==
    /\ last # NoCall /\ last.op = "calculate_sample_size"
    /\ last.args.request.design_type \notin {"parallel", "crossover"}
    /\ ~(last.args.request.design_type = "bioequivalence"
         /\ ~IsAbsent(last.args.request.cv)
         /\ ~IsZero(ValueOf(last.args.request.cv)))

\* C26: a request to the sample-size endpoint whose design_type is not
\* parallel or crossover, and is not bioequivalence with a non-zero cv, is
\* answered with HTTP status 400 and the detail "Unsupported design type",
\* not with status 500.
C26_UnsupportedDesignIs400 ==
    UnsupportedRequest =>
        /\ last.result.status_code = 400
        /\ last.result.detail # <<>>
        /\ last.result.detail[1] = "Unsupported design type"

\* C27: for every request to the regulatory-check endpoint the compliant
\* flag is true exactly when the violations list is empty; the study is built
\* without endpoints and without a sample size, so every response holds the
\* "No endpoints defined" and "Sample size is missing or too small"
\* violations and no request obtains compliant = true.
C27_NeverCompliant ==
    (last # NoCall /\ last.op = "check_regulatory_compliance") =>
        LET body == last.result.body
        IN /\ last.result.status_code = 200
           /\ body.compliant <=> (body.violations = <<>>)
           /\ \E k \in DOMAIN body.violations :
                  body.violations[k].description = "No endpoints defined"
           /\ \E k \in DOMAIN body.violations :
                  body.violations[k].description = "Sample size is missing or too small"
           /\ ~body.compliant

\* a request with a sound id and title, a parallel design and a primary
\* endpoint is answered with exactly the two violations
C27_Witness ==
    /\ last # NoCall /\ last.op = "check_regulatory_compliance"
    /\ last.args.request.study_id = "ONCO-X-2024-001"
    /\ last.args.request.title # ""
    /\ last.args.request.design_type = Some("parallel")
    /\ last.args.request.endpoints = Some(<<Endpoint("ORR", "primary")>>)
    /\ Len(last.result.body.violations) = 2
    /\ ~last.result.body.compliant

\* calls a and b are parallel calculations on the same calculator with the
\* same effect_size, std_dev and number_of_arms
SameButRatio(a, b) ==
    /\ a.inst = b.inst /\ a.op = "parallel" /\ b.op = "parallel"
    /\ a.args.effect_size = b.args.effect_size
    /\ a.args.std_dev = b.args.std_dev
    /\ a.args.number_of_arms = b.args.number_of_arms

\* C28: in calculate_parallel_design with all other inputs fixed, allocation
\* ratios r and 1/r give the same n_per_group, and for every r # 1 the
\* reported n_per_group is at most the one reported for r = 1, so unequal
\* allocation never increases the reported per-group or total count.
C28_AllocationSymmetricNeverMore ==
    (BothReturned /\ SameButRatio(kept, last)) =>
        /\ FMul(kept.args.allocation_ratio, last.args.allocation_ratio) = <<1, 1>>
               => kept.result.n_per_group = last.result.n_per_group
        /\ (kept.args.allocation_ratio = <<1, 1>>
            /\ last.args.allocation_ratio # <<1, 1>>)
               => /\ last.result.n_per_group <= kept.result.n_per_group
                  /\ last.result.total_n <= kept.result.total_n
        /\ (last.args.allocation_ratio = <<1, 1>>
            /\ kept.args.allocation_ratio # <<1, 1>>)
               => /\ kept.result.n_per_group <= last.result.n_per_group
                  /\ kept.result.total_n <= last.result.total_n

\* the same calculation run with r = 2 and then with r = 1/2, both reporting
\* one n_per_group
C28_Witness ==
    /\ BothReturned /\ SameButRatio(kept, last)
    /\ kept.args.allocation_ratio = <<2, 1>>
    /\ last.args.allocation_ratio = <<1, 2>>
    /\ kept.result.n_per_group = last.result.n_per_group
    /\ kept.result.n_per_group > 1

\* the positions of sweep c whose single calculation raises
FailingPositions(c) ==
    {k \in DOMAIN c.args.effect_sizes : SingleCall(c, k).raised # "none"}

\* the least element of a non-empty set of positions
FirstOf(K) == CHOOSE k \in K : \A j \in K : k <= j

\* C29: sensitivity_analysis returns a complete result list or none: if any
\* effect size in the sequence makes its calculation fail, the sweep raises
\* at that element and returns no partial list, even when earlier elements
\* were valid; for every design value other than "parallel" each result is a
\* crossover result computed with correlation 0.5.
C29_SweepAllOrNothing ==
    (last # NoCall /\ last.op = "sensitivity") =>
        /\ FailingPositions(last) # {} =>
               /\ last.raised = SingleCall(last, FirstOf(FailingPositions(last))).raised
               /\ last.results = <<>>
               /\ last.result = NoResult
        /\ FailingPositions(last) = {} =>
               /\ last.raised = "none"
               /\ Len(last.results) = Len(last.args.effect_sizes)
        /\ (last.raised = "none" /\ last.args.design # "parallel") =>
               \A k \in DOMAIN last.results :
                   /\ last.results[k].design = "crossover"
                   /\ last.results[k].correlation = <<1, 2>>
                   /\ last.results[k] =
                          calculate_crossover_design(ctor_args[last.inst],
                              last.args.effect_sizes[k], last.args.std_dev,
                              <<1, 2>>).result

\* a sweep with an unlisted design value over a valid effect size followed by
\* 0: the second element raises and nothing of the first is returned
C29_Witness ==
    /\ last # NoCall /\ last.op = "sensitivity"
    /\ IsValidConfig(ctor_args[last.inst])
    /\ last.args.design = "factorial"
    /\ last.args.effect_sizes = <<(<<1, 1>>), (<<0, 1>>)>>
    /\ SingleCall(last, 1).raised = "none"
    /\ last.raised # "none"
    /\ last.results = <<>>

\* the positions of the profile's parameters carrying the name asked for
PositionsNamed(parameter_name) ==
    {k \in DOMAIN profile.parameters :
        profile.parameters[k].parameter_name = parameter_name}

\* C30: for a PKProfile after any sequence of add_parameter calls,
\* get_parameter(name) returns the earliest-added parameter with that name
\* and returns absent exactly when no parameter with that name was ever
\* added; get_parameter never changes the profile, and add_parameter only
\* appends: existing parameters keep their order and are never replaced or
\* removed.
C30_ProfileAppendOnlyFirstMatch ==
    /\ (last # NoCall /\ last.op = "get_parameter") =>
           LET hits == PositionsNamed(last.args.parameter_name)
           IN /\ profile = last.args.self
              /\ IsAbsent(last.result.parameter) <=> hits = {}
              /\ hits # {} =>
                     last.result.parameter = Some(profile.parameters[FirstOf(hits)])
    /\ (last # NoCall /\ last.op = "add_parameter") =>
           LET before == last.args.self.parameters
           IN /\ Len(profile.parameters) = Len(before) + 1
              /\ \A k \in DOMAIN before : profile.parameters[k] = before[k]
              /\ profile.parameters[Len(before) + 1] = last.args.parameter

\* a second t1/2 parameter was added after a first with another value, and
\* both are kept in the order of their addition
C30_Witness ==
    /\ last # NoCall /\ last.op = "add_parameter"
    /\ Len(profile.parameters) = 2
    /\ profile.parameters[1].parameter_name = "t1/2"
    /\ profile.parameters[2].parameter_name = "t1/2"
    /\ profile.parameters[1].value # profile.parameters[2].value
    /\ get_parameter(profile, "t1/2") = Some(profile.parameters[1])

====
